---- MODULE Spec2Model ----
(***************************************************************************)
(* A model of the HomeWizard pairing orchestrator (package pairing):       *)
(* the single-device button-press handshake (pairDeviceWithContext and     *)
(* requestToken), its two callers PairSingleDevice and pairDevicesParallel,*)
(* the name validation of the two entry points and the discovery scan     *)
(* (discoverInteractively); and of the device adapters (package device):   *)
(* their caches, message handlers and accessors, StartAndWait and          *)
(* SetBatteryMode.                                                         *)
(*                                                                         *)
(* Time is counted in seconds.  A goroutine that can take a step takes it  *)
(* before time advances; time jumps from one timer event to the next       *)
(* (a ticker tick, the context deadline, the arrival of an HTTP response). *)
(***************************************************************************)
EXTENDS Integers, Sequences, FiniteSets, TLC

(***************************************************************************)
(* Program constants.                                                      *)
(***************************************************************************)
\* time.NewTicker(5 * time.Second)
TickInterval == 5
\* context.WithTimeout(context.Background(), 3*time.Minute), in seconds
PairTimeout == 180
\* http.Client{Timeout: 10 * time.Second}
HttpClientTimeout == 10
\* "Waiting for button press (attempt %d/36)..."
DisplayedAttempts == 36
\* http.StatusOK, http.StatusForbidden
StatusOK == 200
StatusForbidden == 403
\* the {1,40} of the name pattern
NameMinLen == 1
NameMaxLen == 40

(***************************************************************************)
(* Bounds of the model.                                                    *)
(***************************************************************************)
\* The attempt counter and the recorded histories saturate here.
MaxAttempts == 38
\* The longest friendly name tried.
MaxNameLen == 42

(***************************************************************************)
(* Values.                                                                 *)
(***************************************************************************)
\* The error strings the callers see.
NoErr == "nil"
ErrTimeout == "timeout after 3 minutes"
ErrInvalidName == "invalid name"

\* What a 200 response can carry as its body: a JSON object whose token
\* field is one of Tokens (an absent field decodes to ""), or text that
\* json.Decode rejects.
Tokens == {"", "T1", "T2"}
BadJson == "<undecodable>"

Min(S) == CHOOSE x \in S : \A y \in S : x <= y

\* The outcomes of client.Do: a transport error (no response: connection
\* refused, TLS failure, the client's own 10 s timeout), or a response with a
\* status and a body.
TransportFailure == [kind |-> "transport", status |-> 0, body |-> ""]
HttpAnswer(s, b) == [kind |-> "http", status |-> s, body |-> b]
Pending403 == HttpAnswer(StatusForbidden, "")

AllAnswers ==
  {TransportFailure, Pending403, HttpAnswer(500, ""), HttpAnswer(401, "")}
    \cup {HttpAnswer(StatusOK, b) : b \in Tokens \cup {BadJson}}

(***************************************************************************)
(* requestToken and isButtonPressRequired, as functions of the outcome of  *)
(* client.Do.                                                              *)
(***************************************************************************)
\* The errors of requestToken: nil, an *httpError, or another error.
NilErr == [type |-> "nil", status |-> 0]
HttpErr(s) == [type |-> "http", status |-> s]
OtherErr(t) == [type |-> t, status |-> 0]

requestToken(ans) ==
  IF ans.kind = "transport"
    THEN [token |-> "", err |-> OtherErr("transport")]
  ELSE IF ans.status # StatusOK
    THEN [token |-> "", err |-> HttpErr(ans.status)]
  ELSE IF ans.body = BadJson
    THEN [token |-> "", err |-> OtherErr("decode")]
  ELSE [token |-> ans.body, err |-> NilErr]

isButtonPressRequired_AnyHttp(err) == err.type = "http"
isButtonPressRequired(err) ==
  err.type = "http" /\ err.status = StatusForbidden

\* fmt.Errorf("error: %v", err)
WrapErr(err) ==
  IF err.type = "http" THEN "error: HTTP " \o ToString(err.status)
  ELSE "error: " \o err.type

VARIABLES
  flow,        \* which entry point runs: "single", "batch" or "entry"
  devices,     \* the input device list: records [host, type]
  now,         \* seconds since the context and the tickers were created
  pc,          \* per attempt: where its goroutine stands
  attempt,     \* per attempt: the local counter of pairDeviceWithContext
  tickC,       \* per attempt: whether ticker.C holds a tick (capacity 1)
  inflight,    \* per attempt: arrival time of the response awaited, and
               \* whether the HTTP client gave up
  ret,         \* per attempt: what pairDeviceWithContext returned
  reported,    \* history: the values passed to onAttempt
  requests,    \* history: the number of requestToken calls
  answers,     \* history: the outcomes of client.Do
  statuses,    \* pairDevicesParallel: the deviceStatus records
  display,     \* pairDevicesParallel: the status line last drawn per device
  statusMu,    \* pairDevicesParallel: the holder of statusMu, 0 when free
  wg,          \* pairDevicesParallel: the WaitGroup counter
  mainPc,      \* pairDevicesParallel: where the calling goroutine stands
  buildIdx,    \* pairDevicesParallel: the next status the result loop reads
  paired,      \* pairDevicesParallel: the result list
  failedCount, \* pairDevicesParallel: the failure counter
  name,        \* entry points: the friendly name, a sequence of code points
  entry,       \* entry points: which one was called
  entryPc,     \* entry points: where it stands
  entryErr,    \* entry points: the error returned
  scanStarted, \* entry points: discoverInteractively was called
  pairStarted, \* entry points: pairDeviceWithContext was called
  window,      \* discoverInteractively: the scan window, in ticks of 100 ms
  clock,       \* discoverInteractively: ticks of 100 ms since it was called
  scanPc,      \* discoverInteractively: where the scan loop stands
  discPc,      \* the goroutine that runs discovery.DiscoverDevices
  cancelled,   \* discoverInteractively: cancel() was called
  emitted,     \* history: the number of devices the discovery has reported
  lastEmit,    \* history: when the last of them was reported
  deviceChan,  \* discoverInteractively: the buffer of deviceChan
  found,       \* discoverInteractively: the local slice devices
  quietTimer,  \* discoverInteractively: when quietTimer fires, NoTimer if nil
  spinTick,    \* discoverInteractively: spinnerTicker.C holds a tick
  spinner,     \* discoverInteractively: the spinner, [idx, active]
  stopBy,      \* history: the select case that ended the scan
  stopTime,    \* history: when it was chosen
  asked,       \* history: the operator's answers to the confirmation
  scanResult,  \* discoverInteractively: the slice returned
  host,          \* adapters: the host given to the constructor, code points
  devType,       \* adapters: the adapter: "p1meter" or "kwhmeter"
  maxAge,        \* adapters: the timeout given to the constructor, in seconds
  measurement,   \* adapters: the cache measurement: [val, at, written]
  batteriesData, \* adapters: the cache batteriesData of the P1 meter
  lastMsg,       \* adapters: history: the message handled by the last step
  call,          \* adapters: history: the accessor call made by the last step
  connState,     \* connection: the link state
  notified,      \* connection: the start notification has been sent
  errC,          \* StartAndWait: the channel errC (capacity 1)
  startPc,       \* StartAndWait: where it stands
  startTimeout,  \* StartAndWait: its argument, in seconds
  deadline,      \* StartAndWait: when time.After(timeout) fires
  startRet,      \* StartAndWait: the error returned
  stops,         \* history: the number of Stop calls
  sbmPc,         \* SetBatteryMode: where it stands
  sbmMode,       \* SetBatteryMode: its argument
  sbmRet,        \* SetBatteryMode: the error returned
  sent,          \* history: the modes sent over the connection
  httpPuts,      \* history: the modes of the HTTP requests issued
  httpErr,       \* history: the outcomes of those requests
  reachable,     \* connection: the device answers a handshake
  retryAt,       \* connection: when the next connect is due, NoTimer if none
  inbound,       \* connection: the frames of the session not yet read
  lastGood,      \* history: the last decodable measurement read
  stopFrom,      \* history: the link state Stop was called in
  sendErrs,      \* history: what the calls of Send returned
  dials,         \* history: the number of attempts to connect
  monMu,         \* the cache: the holder of its lock, "free" if none
  wPc,           \* the handler storing a measurement: where it stands
  wLocal,        \* the handler: its local m
  rPc,           \* GetMeasurement reading the cache: where it stands
  rGot,          \* GetMeasurement: what Get has read: [val, at, written, err]
  records        \* history: the values stored, with their timestamps

batchVars == <<statuses, display, statusMu, wg, mainPc, buildIdx, paired, failedCount>>
entryVars == <<name, entry, entryPc, entryErr, scanStarted, pairStarted>>
discVars == <<window, clock, scanPc, discPc, cancelled, emitted, lastEmit,
              deviceChan, found, quietTimer, spinTick, spinner, stopBy,
              stopTime, asked, scanResult>>
devVars == <<host, devType, maxAge, measurement, batteriesData, lastMsg, call>>
ctlVars == <<connState, notified, errC, startPc, startTimeout, deadline,
             startRet, stops, sbmPc, sbmMode, sbmRet, sent, httpPuts, httpErr>>
linkVars == <<reachable, retryAt, inbound, lastGood, stopFrom, sendErrs,
              dials>>
raceVars == <<monMu, wPc, wLocal, rPc, rGot, records>>
otherVars == <<discVars, devVars, ctlVars, linkVars, raceVars>>
pairVars == <<devices, now, pc, attempt, tickC, inflight, ret, reported,
              requests, answers>>
\* What discoverInteractively leaves alone.
notScan == <<flow, pairVars, batchVars, entryVars, devVars, ctlVars, linkVars,
            raceVars>>
vars == <<flow, devices, now, pc, attempt, tickC, inflight, ret,
          reported, requests, answers, batchVars, entryVars, otherVars>>

N == Len(devices)
Attempts == 1..N

NoReq == [at |-> 0, gaveUp |-> FALSE]
NoRet == [token |-> "", err |-> "<running>"]

(***************************************************************************)
(* The device adapters (package device): the P1 meter and the kWh meter,   *)
(* their caches, their message handlers and their accessors.  Time is      *)
(* counted in seconds.  The cache (util.Monitor) is known by its contract: *)
(* Set stores the value with the time of the write, Get returns the value  *)
(* while its age is within max-age and fails otherwise.                    *)
(***************************************************************************)
\* The oldest age configured and the last second looked at.
MaxAgeBound == 2
MaxClock == 4

\* api.ErrTimeout, and the errors of the handlers
ApiErrTimeout == "timeout"
ErrOutdated == "outdated"
ErrUnmarshalMeasurement == "unmarshal meter measurement"
ErrUnmarshalBatteries == "unmarshal batteries data"

\* The JSON fields of CommonMeasurement, P1Measurement and KWHMeasurement.
CommonFields ==
  {"power_w", "power_l1_w", "power_l2_w", "power_l3_w",
   "voltage_v", "voltage_l1_v", "voltage_l2_v", "voltage_l3_v",
   "current_a", "current_l1_a", "current_l2_a", "current_l3_a"}
P1Fields ==
  {"energy_import_t1_kwh", "energy_import_t2_kwh",
   "energy_export_t1_kwh", "energy_export_t2_kwh"}
KWHFields == {"energy_import_kwh", "energy_export_kwh"}
AllFields == CommonFields \cup P1Fields \cup KWHFields
FieldsOf(t) ==
  CommonFields \cup (IF t = "p1meter" THEN P1Fields ELSE KWHFields)

\* var zero T
ZeroMeasurement == [f \in AllFields |-> 0]
ZeroBatteries == [MaxConsumptionW |-> 0, MaxProductionW |-> 0]

\* The payloads tried.  A payload is undecodable, or a JSON object that
\* gives a number to each of its keys (a key it lacks reads as 0).
Reading(k) ==
  [f \in AllFields |->
     CASE f = "power_w" -> 0 - 60 * k
       [] f = "power_l1_w" -> 0 - 10 * k
       [] f = "power_l2_w" -> 0 - 20 * k
       [] f = "power_l3_w" -> 0 - 30 * k
       [] f = "voltage_v" -> 230 + k
       [] f = "voltage_l1_v" -> 231 + k
       [] f = "voltage_l2_v" -> 232 + k
       [] f = "voltage_l3_v" -> 233 + k
       [] f = "current_a" -> 6 * k
       [] f = "current_l1_a" -> k
       [] f = "current_l2_a" -> 2 * k
       [] f = "current_l3_a" -> 3 * k
       [] f = "energy_import_t1_kwh" -> 100 + k
       [] f = "energy_import_t2_kwh" -> 200 + k
       [] f = "energy_export_t1_kwh" -> 300 + k
       [] f = "energy_export_t2_kwh" -> 400 + k
       [] f = "energy_import_kwh" -> 500 + k
       [] f = "energy_export_kwh" -> 600 + k]
Undecodable == [ok |-> FALSE, obj |-> ZeroMeasurement, bat |-> ZeroBatteries]
MeasurementPayload(k) == [ok |-> TRUE, obj |-> Reading(k), bat |-> ZeroBatteries]
BatteriesPayload(c, p) ==
  [ok |-> TRUE, obj |-> ZeroMeasurement,
   bat |-> [MaxConsumptionW |-> c, MaxProductionW |-> p]]
EmptyObject == [ok |-> TRUE, obj |-> ZeroMeasurement, bat |-> ZeroBatteries]
MessageTypes == {"measurement", "batteries", "device", "system", "error"}
\* What the device sends under each type: a measurement, the battery data,
\* or something else; and any of them may be cut short.
PayloadsOf(msgType) ==
  CASE msgType = "measurement" -> {Undecodable, EmptyObject, MeasurementPayload(1), MeasurementPayload(2)}
    [] msgType = "batteries" -> {Undecodable, BatteriesPayload(800, 700)}
    [] OTHER -> {Undecodable, EmptyObject}

\* json.Unmarshal(data, &m) for the measurement type of the device, and
\* json.Unmarshal(data, &b) for BatteriesData.
UnmarshalMeasurement(t, p) ==
  [f \in AllFields |-> IF f \in FieldsOf(t) THEN p.obj[f] ELSE 0]
UnmarshalBatteries(p) == p.bat

\* util.NewMonitor(timeout): nothing has been written.
NewMonitor(zero) == [val |-> zero, at |-> 0, written |-> FALSE]
\* Monitor.Set(val)
MonitorSet(val) == [val |-> val, at |-> now, written |-> TRUE]
\* Monitor.Get()
MonitorFresh(c) == c.written /\ now - c.at <= maxAge
MonitorGet(c) ==
  IF MonitorFresh(c) THEN [val |-> c.val, err |-> NoErr]
  ELSE [val |-> c.val, err |-> ErrOutdated]

NoMsg == [type |-> "none", payload |-> Undecodable, err |-> NoErr]
Result(m, vals, err) == [m |-> m, vals |-> vals, err |-> err]
NoCall ==
  [fn |-> "none", phases |-> 0, flag |-> FALSE,
   res |-> Result(ZeroMeasurement, <<>>, NoErr)]

NoTimer == 0 - 1
NoRead == [val |-> ZeroMeasurement, at |-> 0, written |-> FALSE, err |-> NoErr]

\* NewConnection: the link is down, nothing was started, called or sent.
NoControl ==
  /\ connState = "Disconnected"
  /\ notified = FALSE
  /\ errC = "empty"
  /\ startPc = "idle"
  /\ startTimeout = 0
  /\ deadline = 0
  /\ startRet = "<running>"
  /\ stops = 0
  /\ sbmPc = "idle"
  /\ sbmMode = "none"
  /\ sbmRet = "<running>"
  /\ sent = <<>>
  /\ httpPuts = <<>>
  /\ httpErr = <<>>
  /\ reachable = TRUE
  /\ retryAt = NoTimer
  /\ inbound = <<>>
  /\ lastGood = Undecodable
  /\ stopFrom = "none"
  /\ sendErrs = <<>>
  /\ dials = 0
  /\ monMu = "free"
  /\ wPc = "idle"
  /\ wLocal = ZeroMeasurement
  /\ rPc = "idle"
  /\ rGot = NoRead
  /\ records = {}

\* The hosts tried, as code points: "h1" and "bad host".  They carry no
\* port, bracket, percent sign or URL delimiter.
GoodHost == <<104, 49>>
BadHost == <<98, 97, 100, 32, 104, 111, 115, 116>>
Hosts == {GoodHost, BadHost}

\* The bytes the URL parser rejects in a host name: the space and the
\* control characters, and \ ^ ` { | }.
BadHostByte(c) == c <= 32 \/ c = 127 \/ c \in {92, 94, 96, 123, 124, 125}
UrlParses(h) == h # <<>> /\ \A k \in 1..Len(h) : ~BadHostByte(h[k])
\* A connection can be dialled only at a host a URL can be made of.
Dialable(h) == UrlParses(h)

NoDevice ==
  /\ host = <<>>
  /\ devType = "none"
  /\ maxAge = 0
  /\ measurement = NewMonitor(ZeroMeasurement)
  /\ batteriesData = NewMonitor(ZeroBatteries)
  /\ lastMsg = NoMsg
  /\ call = NoCall
  /\ NoControl


(***************************************************************************)
(* The deadline and the ticker.                                            *)
(***************************************************************************)
\* ctx.Done() is closed once the deadline has passed.
ctxDone_SiblingFailed ==
  \/ now >= PairTimeout
  \/ \E j \in DOMAIN ret : ret[j].err \notin {"<running>", "nil", "timeout after 3 minutes"}
ctxDone == now >= PairTimeout
NextTick == ((now \div TickInterval) + 1) * TickInterval

\* Past the deadline only the phase of the ticker matters: the clock is
\* kept in a window of one tick interval.
WrapAt == PairTimeout + 2 * TickInterval
Shift(t) == IF t >= WrapAt THEN TickInterval ELSE 0

\* A goroutine that waits for time to pass.
WaitsForTime(i) ==
  \/ pc[i] = "select" /\ ~tickC[i] /\ ~ctxDone
  \/ pc[i] = "inflight" /\ now < inflight[i].at
\* A goroutine that has nothing left to do: PairSingleDevice only prints
\* once pairDeviceWithContext has returned.
Quiet(i) ==
  \/ WaitsForTime(i)
  \/ pc[i] = "exited"
  \/ flow = "single" /\ pc[i] = "returned"

TimerEvents ==
  {NextTick} \cup (IF ctxDone THEN {} ELSE {PairTimeout})
    \cup {inflight[i].at : i \in {j \in Attempts : pc[j] = "inflight"}}

\* The runtime's timers: every running ticker sends a tick on its channel
\* unless the channel is full.
AdvanceTime ==
  /\ \A i \in Attempts : Quiet(i)
  /\ \E i \in Attempts : WaitsForTime(i)
  /\ LET t == Min(TimerEvents)
         s == Shift(t)
     IN /\ now' = t - s
        /\ tickC' = [i \in Attempts |->
                       IF pc[i] \in {"select", "inflight"} /\ t % TickInterval = 0
                         THEN TRUE ELSE tickC[i]]
        /\ inflight' = [i \in Attempts |->
                          IF pc[i] = "inflight"
                            THEN [inflight[i] EXCEPT !.at = @ - s]
                            ELSE inflight[i]]
  /\ UNCHANGED <<flow, devices, pc, attempt, ret, reported, requests, answers,
               batchVars, entryVars, otherVars>>

(***************************************************************************)
(* pairDeviceWithContext.                                                  *)
(***************************************************************************)
Bump(n) == IF n < MaxAttempts THEN n + 1 ELSE n
\* attempt++
attemptInc_Stuck(n) == n
attemptInc(n) == Bump(n)
Record(h, x) ==
  IF Len(h) < MaxAttempts THEN Append(h, x) ELSE [h EXCEPT ![Len(h)] = x]

\* case <-ticker.C: attempt++
SelectTick(i) ==
  /\ pc[i] = "select"
  /\ tickC[i]
  /\ tickC' = [tickC EXCEPT ![i] = FALSE]
  /\ attempt' = [attempt EXCEPT ![i] = attemptInc(@)]
  /\ pc' = [pc EXCEPT ![i] = "onAttempt"]
  /\ UNCHANGED <<flow, devices, now, inflight, ret, reported, requests, answers,
               batchVars, entryVars, otherVars>>

\* case <-ctx.Done(): return "", fmt.Errorf("timeout after 3 minutes")
SelectDoneReturn_Fatal(i) == [token |-> "", err |-> "error: context"]
SelectDoneReturn(i) == [token |-> "", err |-> ErrTimeout]

SelectDone(i) ==
  /\ pc[i] = "select"
  /\ ctxDone
  /\ ret' = [ret EXCEPT ![i] = SelectDoneReturn(i)]
  /\ pc' = [pc EXCEPT ![i] = "returned"]
  /\ tickC' = [tickC EXCEPT ![i] = FALSE]
  /\ UNCHANGED <<flow, devices, now, attempt, inflight, reported, requests, answers,
               batchVars, entryVars, otherVars>>

\* The callback PairSingleDevice passes: it prints the attempt number.
OnAttemptSingle(i) ==
  /\ flow = "single"
  /\ pc[i] = "onAttempt"
  /\ reported' = [reported EXCEPT ![i] = Record(@, attempt[i])]
  /\ pc' = [pc EXCEPT ![i] = "request"]
  /\ UNCHANGED <<flow, devices, now, attempt, tickC, inflight, ret, requests, answers,
               batchVars, entryVars, otherVars>>

\* The devices tried.  One device alone answers every poll with any outcome
\* after any latency up to the client's timeout.  The devices of a batch
\* answer at once, and with something other than 403 only at the polls of
\* BatchDecisionPolls.
BatchDecisionPolls == {1, 2, DisplayedAttempts}
BatchAnswers ==
  {Pending403, HttpAnswer(500, ""), HttpAnswer(StatusOK, "T1"),
   HttpAnswer(StatusOK, "T2"), HttpAnswer(StatusOK, "")}
Latencies(i) == IF flow = "single" THEN 0..HttpClientTimeout ELSE {0}
DeviceAnswers(i) ==
  IF flow = "single" THEN AllAnswers
  ELSE IF attempt[i] \in BatchDecisionPolls THEN BatchAnswers
  ELSE {Pending403}

\* requestToken up to client.Do: the request is on the wire.
RequestToken(i) ==
  /\ pc[i] = "request"
  /\ \E lat \in Latencies(i) :
       inflight' = [inflight EXCEPT
                      ![i] = [at |-> now + lat, gaveUp |-> lat = HttpClientTimeout]]
  /\ requests' = [requests EXCEPT ![i] = Bump(@)]
  /\ pc' = [pc EXCEPT ![i] = "inflight"]
  /\ UNCHANGED <<flow, devices, now, attempt, tickC, ret, reported, answers,
               batchVars, entryVars, otherVars>>

\* What the loop does with requestToken's result: return the token, return
\* a fatal error, or go round again.
AfterRequest(r) ==
  IF r.err = NilErr THEN [done |-> TRUE, token |-> r.token, err |-> NoErr]
  ELSE IF ~isButtonPressRequired(r.err)
    THEN [done |-> TRUE, token |-> "", err |-> WrapErr(r.err)]
  ELSE [done |-> FALSE, token |-> "", err |-> NoErr]

\* client.Do returns, requestToken returns, and the loop acts on it.
Response(i) ==
  /\ pc[i] = "inflight"
  /\ now = inflight[i].at
  /\ \E ans \in (IF inflight[i].gaveUp THEN {TransportFailure} ELSE DeviceAnswers(i)) :
       LET a == AfterRequest(requestToken(ans))
       IN /\ answers' = [answers EXCEPT ![i] = Record(@, ans)]
          /\ IF a.done
               THEN /\ ret' = [ret EXCEPT ![i] = [token |-> a.token, err |-> a.err]]
                    /\ pc' = [pc EXCEPT ![i] = "returned"]
                    /\ tickC' = [tickC EXCEPT ![i] = FALSE]
               ELSE /\ pc' = [pc EXCEPT ![i] = "select"]
                    /\ UNCHANGED <<ret, tickC, otherVars>>
  /\ inflight' = [inflight EXCEPT ![i] = NoReq]
  /\ UNCHANGED <<flow, devices, now, attempt, reported, requests,
               batchVars, entryVars, otherVars>>

(***************************************************************************)
(* PairSingleDevice, after the name has been accepted.                     *)
(***************************************************************************)
InitCommon ==
  /\ now = 0
  /\ pc = [i \in Attempts |-> "select"]
  /\ attempt = [i \in Attempts |-> 0]
  /\ tickC = [i \in Attempts |-> FALSE]
  /\ inflight = [i \in Attempts |-> NoReq]
  /\ ret = [i \in Attempts |-> NoRet]
  /\ reported = [i \in Attempts |-> <<>>]
  /\ requests = [i \in Attempts |-> 0]
  /\ answers = [i \in Attempts |-> <<>>]

\* for i := range devices { statuses[i] = &deviceStatus{...} }
NewStatus(d) ==
  [device |-> d, status |-> "initializing...", attempt |-> 0, token |-> "",
   err |-> NoErr]

NoBatch ==
  /\ statuses = <<>>
  /\ display = <<>>
  /\ statusMu = 0
  /\ wg = 0
  /\ mainPc = "none"
  /\ buildIdx = 0
  /\ paired = <<>>
  /\ failedCount = 0

NoDiscovery ==
  /\ window = 0
  /\ clock = 0
  /\ scanPc = "none"
  /\ discPc = "none"
  /\ cancelled = FALSE
  /\ emitted = 0
  /\ lastEmit = 0
  /\ deviceChan = <<>>
  /\ found = <<>>
  /\ quietTimer = NoTimer
  /\ spinTick = FALSE
  /\ spinner = [idx |-> 0, active |-> FALSE]
  /\ stopBy = "none"
  /\ stopTime = 0
  /\ asked = <<>>
  /\ scanResult = <<>>

NoEntry ==
  /\ name = <<>>
  /\ entry = "none"
  /\ entryPc = "none"
  /\ entryErr = NoErr
  /\ scanStarted = FALSE
  /\ pairStarted = FALSE

InitSingle ==
  /\ flow = "single"
  /\ devices = <<[host |-> "h1", type |-> "p1meter"]>>
  /\ InitCommon
  /\ NoBatch
  /\ NoEntry
  /\ NoDiscovery
  /\ NoDevice

NextSingle ==
  \/ AdvanceTime
  \/ \E i \in Attempts : SelectTick(i)
  \/ \E i \in Attempts : SelectDone(i)
  \/ \E i \in Attempts : OnAttemptSingle(i)
  \/ \E i \in Attempts : RequestToken(i)
  \/ \E i \in Attempts : Response(i)

SpecSingle == InitSingle /\ [][NextSingle]_vars

(***************************************************************************)
(* pairDevicesParallel: one goroutine per device runs                      *)
(* pairDeviceWithContext under the shared context; the caller waits for    *)
(* all of them and builds the result.                                      *)
(***************************************************************************)
WaitingLine(n) ==
  "waiting for button press (attempt " \o ToString(n) \o "/36)..."
FailedLine(err) == "FAILED: " \o err
SuccessLine == "SUCCESS"

\* statusMu.Lock() returns once no goroutine holds the mutex.
LockGranted_NoExclusion == TRUE
LockGranted == statusMu = 0

\* statusMu.Unlock() by goroutine i: nobody holds the mutex afterwards.
HolderAfterUnlock_NotReleased(i) == i
HolderAfterUnlock(i) == 0

\* The callback: statusMu.Lock()
OnAttemptLock(i) ==
  /\ flow = "batch"
  /\ pc[i] = "onAttempt"
  /\ LockGranted
  /\ statusMu' = i
  /\ pc' = [pc EXCEPT ![i] = "cbLocked"]
  /\ UNCHANGED <<flow, devices, now, attempt, tickC, inflight, ret, reported,
                 requests, answers, statuses, display, wg, mainPc, buildIdx,
                 paired, failedCount, entryVars, otherVars>>

\* The callback: status.attempt = attempt; status.status = ...;
\* updateStatusLine(idx, status, totalLines)
OnAttemptWrite(i) ==
  /\ pc[i] = "cbLocked"
  /\ statuses' = [statuses EXCEPT ![i].attempt = attempt[i],
                                  ![i].status = WaitingLine(attempt[i])]
  /\ display' = [display EXCEPT ![i] = statuses'[i].status]
  /\ reported' = [reported EXCEPT ![i] = Record(@, attempt[i])]
  /\ pc' = [pc EXCEPT ![i] = "cbWritten"]
  /\ UNCHANGED <<flow, devices, now, attempt, tickC, inflight, ret, requests,
                 answers, statusMu, wg, mainPc, buildIdx, paired, failedCount,
                 entryVars, otherVars>>

\* The callback: the deferred statusMu.Unlock()
OnAttemptUnlock(i) ==
  /\ pc[i] = "cbWritten"
  /\ statusMu' = HolderAfterUnlock(i)
  /\ pc' = [pc EXCEPT ![i] = "request"]
  /\ UNCHANGED <<flow, devices, now, attempt, tickC, inflight, ret, reported,
                 requests, answers, statuses, display, wg, mainPc, buildIdx,
                 paired, failedCount, entryVars, otherVars>>

\* After pairDeviceWithContext has returned: statusMu.Lock()
FinalLock(i) ==
  /\ flow = "batch"
  /\ pc[i] = "returned"
  /\ LockGranted
  /\ statusMu' = i
  /\ pc' = [pc EXCEPT ![i] = "finalLocked"]
  /\ UNCHANGED <<flow, devices, now, attempt, tickC, inflight, ret, reported,
                 requests, answers, statuses, display, wg, mainPc, buildIdx,
                 paired, failedCount, entryVars, otherVars>>

\* if err != nil { status.err = err; ... } else { status.token = token; ... }
FinalStatus(st, r) ==
  IF r.err # NoErr
    THEN [st EXCEPT !.err = r.err, !.status = FailedLine(r.err)]
    ELSE [st EXCEPT !.token = r.token, !.status = SuccessLine]

FinalWrite(i) ==
  /\ pc[i] = "finalLocked"
  /\ statuses' = [statuses EXCEPT ![i] = FinalStatus(@, ret[i])]
  /\ display' = [display EXCEPT ![i] = statuses'[i].status]
  /\ pc' = [pc EXCEPT ![i] = "finalWritten"]
  /\ UNCHANGED <<flow, devices, now, attempt, tickC, inflight, ret, reported,
                 requests, answers, statusMu, wg, mainPc, buildIdx, paired,
                 failedCount, entryVars, otherVars>>

\* The deferred statusMu.Unlock(), which runs before the deferred wg.Done()
FinalUnlock(i) ==
  /\ pc[i] = "finalWritten"
  /\ statusMu' = HolderAfterUnlock(i)
  /\ pc' = [pc EXCEPT ![i] = "unlocked"]
  /\ UNCHANGED <<flow, devices, now, attempt, tickC, inflight, ret, reported,
                 requests, answers, statuses, display, wg, mainPc, buildIdx,
                 paired, failedCount, entryVars, otherVars>>

\* wg.Done() takes one off the counter of the WaitGroup.
wgDone_Missing(n) == n
wgDone(n) == n - 1

\* The deferred wg.Done()
WgDone(i) ==
  /\ pc[i] = "unlocked"
  /\ wg' = wgDone(wg)
  /\ pc' = [pc EXCEPT ![i] = "exited"]
  /\ UNCHANGED <<flow, devices, now, attempt, tickC, inflight, ret, reported,
                 requests, answers, statuses, display, statusMu, mainPc,
                 buildIdx, paired, failedCount, entryVars, otherVars>>

\* wg.Wait() returns once the counter is zero.
WaitReleased_NoWait == TRUE
WaitReleased == wg = 0

WgWait ==
  /\ mainPc = "wait"
  /\ WaitReleased
  /\ mainPc' = "build"
  /\ buildIdx' = 1
  /\ paired' = <<>>
  /\ failedCount' = 0
  /\ UNCHANGED <<flow, devices, now, pc, attempt, tickC, inflight, ret,
                 reported, requests, answers, statuses, display, statusMu, wg,
                 entryVars, otherVars>>

\* if status.token != "" { paired = append(paired, PairedDevice{...}) }
IsPaired_Any(st) == TRUE
IsPaired(st) == st.token # ""
PairedDevice(st) ==
  [Host |-> st.device.host, Token |-> st.token, Type |-> st.device.type]

\* One round of: for _, status := range statuses { ... }
BuildStep ==
  /\ mainPc = "build"
  /\ buildIdx <= N
  /\ IF IsPaired(statuses[buildIdx])
       THEN /\ paired' = Append(paired, PairedDevice(statuses[buildIdx]))
            /\ UNCHANGED failedCount
       ELSE /\ failedCount' = failedCount + 1
            /\ UNCHANGED paired
  /\ buildIdx' = buildIdx + 1
  /\ UNCHANGED <<flow, devices, now, pc, attempt, tickC, inflight, ret,
                 reported, requests, answers, statuses, display, statusMu, wg,
                 mainPc, entryVars, otherVars>>

\* The warning with failedCount, and return paired.
BuildReturn ==
  /\ mainPc = "build"
  /\ buildIdx > N
  /\ mainPc' = "returned"
  /\ UNCHANGED <<flow, devices, now, pc, attempt, tickC, inflight, ret,
                 reported, requests, answers, statuses, display, statusMu, wg,
                 buildIdx, paired, failedCount, entryVars, otherVars>>

\* The device lists tried.
Dev(n, t) == [host |-> "h" \o ToString(n), type |-> t]
InputLists ==
  {<<Dev(1, "p1meter"), Dev(2, "kwhmeter"), Dev(3, "battery")>>,
   <<Dev(3, "battery"), Dev(1, "p1meter")>>}

\* The state once every goroutine has been started.
InitBatch ==
  /\ flow = "batch"
  /\ devices \in InputLists
  /\ InitCommon
  /\ statuses = [i \in Attempts |-> NewStatus(devices[i])]
  /\ display = [i \in Attempts |-> "initializing..."]
  /\ statusMu = 0
  /\ wg = N
  /\ mainPc = "wait"
  /\ buildIdx = 0
  /\ paired = <<>>
  /\ failedCount = 0
  /\ NoEntry
  /\ NoDiscovery
  /\ NoDevice

NextBatch ==
  \/ AdvanceTime
  \/ \E i \in Attempts : SelectTick(i)
  \/ \E i \in Attempts : SelectDone(i)
  \/ \E i \in Attempts : OnAttemptLock(i)
  \/ \E i \in Attempts : OnAttemptWrite(i)
  \/ \E i \in Attempts : OnAttemptUnlock(i)
  \/ \E i \in Attempts : RequestToken(i)
  \/ \E i \in Attempts : Response(i)
  \/ \E i \in Attempts : FinalLock(i)
  \/ \E i \in Attempts : FinalWrite(i)
  \/ \E i \in Attempts : FinalUnlock(i)
  \/ \E i \in Attempts : WgDone(i)
  \/ WgWait
  \/ BuildStep
  \/ BuildReturn

SpecBatch == InitBatch /\ [][NextBatch]_vars

\* A batch of two devices, for the properties of progress.
InitPair ==
  /\ InitBatch
  /\ N = 2

SpecPair == InitPair /\ [][NextBatch]_vars

\* The steps goroutine i takes without waiting for anybody, its waits in
\* statusMu.Lock(), and the steps of the caller.
Runs(i) ==
  \/ SelectTick(i)
  \/ OnAttemptWrite(i)
  \/ OnAttemptUnlock(i)
  \/ RequestToken(i)
  \/ Response(i)
  \/ FinalWrite(i)
  \/ FinalUnlock(i)
  \/ WgDone(i)
Locks(i) == OnAttemptLock(i) \/ FinalLock(i)
CallerRuns == WgWait \/ BuildStep \/ BuildReturn

\* The scheduler runs every goroutine that can take a step; a goroutine that
\* waits in statusMu.Lock() gets the mutex in the end (sync.Mutex hands a
\* starving waiter the lock); a select that finds ctx.Done() ready again and
\* again takes it in the end.
FairPair ==
  /\ WF_vars(AdvanceTime)
  /\ WF_vars(CallerRuns)
  /\ \A i \in 1..2 :
       /\ WF_vars(Runs(i))
       /\ SF_vars(SelectDone(i))
       /\ SF_vars(Locks(i))

FairSpecPair == SpecPair /\ FairPair

(***************************************************************************)
(* The entry points PairSingleDevice and DiscoverAndPairDevices up to      *)
(* their first network activity.  A name is a sequence of code points.     *)
(***************************************************************************)
\* The class [a-zA-Z0-9\-_/\\# ] of the name pattern.
InClass(c) ==
  \/ c >= 97 /\ c <= 122
  \/ c >= 65 /\ c <= 90
  \/ c >= 48 /\ c <= 57
  \/ c \in {45, 95, 47, 92, 35, 32}

\* namePattern.MatchString(name) for ^[a-zA-Z0-9\-_/\\# ]{1,40}$
MatchName_Unanchored(nm) ==
  \E k \in 1..Len(nm) : InClass(nm[k])
MatchName(nm) ==
  /\ Len(nm) >= NameMinLen
  /\ Len(nm) <= NameMaxLen
  /\ \A k \in 1..Len(nm) : InClass(nm[k])

\* The names tried: n times a fill character, with at most one position
\* holding another character.
FillChars == {97, 32}
OddChars ==
  {0, 10, 32, 35, 45, 47, 48, 57, 58, 64, 65, 90, 91, 92, 95, 96, 97, 122,
   123, 233}
Names ==
  {[k \in 1..n |-> f] : n \in 0..MaxNameLen, f \in FillChars}
    \cup UNION {{[k \in 1..n |-> IF k = q THEN o ELSE f] :
                    f \in FillChars, o \in OddChars,
                    q \in {1, (n + 1) \div 2, n}} : n \in 1..MaxNameLen}

InitEntry ==
  /\ flow = "entry"
  /\ devices = <<>>
  /\ InitCommon
  /\ NoBatch
  /\ name \in Names
  /\ entry \in {"PairSingleDevice", "DiscoverAndPairDevices"}
  /\ entryPc = "validate"
  /\ entryErr = NoErr
  /\ scanStarted = FALSE
  /\ pairStarted = FALSE
  /\ NoDiscovery
  /\ NoDevice

\* if !namePattern.MatchString(name) { return fmt.Errorf("invalid name: ...") }
ValidateName ==
  /\ entryPc = "validate"
  /\ IF MatchName(name)
       THEN /\ entryPc' = (IF entry = "PairSingleDevice" THEN "pair" ELSE "discover")
            /\ UNCHANGED entryErr
       ELSE /\ entryPc' = "returned"
            /\ entryErr' = ErrInvalidName
  /\ UNCHANGED <<flow, devices, now, pc, attempt, tickC, inflight, ret,
                 reported, requests, answers, batchVars, name, entry,
                 scanStarted, pairStarted, otherVars>>

\* devices := discoverInteractively(timeout)
StartDiscovery ==
  /\ entryPc = "discover"
  /\ scanStarted' = TRUE
  /\ entryPc' = "scanning"
  /\ UNCHANGED <<flow, devices, now, pc, attempt, tickC, inflight, ret,
                 reported, requests, answers, batchVars, name, entry,
                 entryErr, pairStarted, otherVars>>

\* token, err := pairDeviceWithContext(ctx, host, name, ...)
StartPairing ==
  /\ entryPc = "pair"
  /\ pairStarted' = TRUE
  /\ entryPc' = "pairing"
  /\ UNCHANGED <<flow, devices, now, pc, attempt, tickC, inflight, ret,
                 reported, requests, answers, batchVars, name, entry,
                 entryErr, scanStarted, otherVars>>

NextEntry ==
  \/ ValidateName
  \/ StartDiscovery
  \/ StartPairing

SpecEntry == InitEntry /\ [][NextEntry]_vars

\* The selects of Go choose at random among the ready cases, so a case that
\* is ready again and again is chosen in the end; every other step is taken
\* once it can be.
FairSingle ==
  /\ WF_vars(AdvanceTime)
  /\ WF_vars(SelectTick(1))
  /\ SF_vars(SelectDone(1))
  /\ WF_vars(OnAttemptSingle(1))
  /\ WF_vars(RequestToken(1))
  /\ WF_vars(Response(1))

FairSpecSingle == SpecSingle /\ FairSingle

(***************************************************************************)
(* discoverInteractively and the rest of DiscoverAndPairDevices.  Time is  *)
(* counted in ticks of 100 ms, the period of the spinner.  The discovery   *)
(* (package discovery) is known by its contract: it reports devices        *)
(* through the callback while its context is live and returns once the     *)
(* context is done.  Devices are numbered in the order they are reported.  *)
(***************************************************************************)
\* time.Second, and time.NewTicker(100 * time.Millisecond), in ticks
TicksPerSecond == 10
SpinnerInterval == 1
\* quietPeriod := 3 * time.Second
QuietPeriod == 3 * TicksPerSecond
\* make(chan discovery.DiscoveredDevice, 10)
DeviceChanCap == 10
\* len(spinner.frames)
SpinnerFrames == 10

\* The most devices the discovery reports, and the scan windows tried
\* (seconds, the timeout argument).
MaxFound == 12
MaxScanSeconds == 5
ScanTimeouts == {0, 2, MaxScanSeconds}

ErrNoDevices == "no HomeWizard devices found on network"

\* ctx.Done() of the scan: the deadline has passed or cancel() was called.
scanCtxDone == clock >= window \/ cancelled

\* strings.ToLower and strings.TrimSpace on a sequence of code points.
ToLower(r) == [k \in 1..Len(r) |-> IF r[k] >= 65 /\ r[k] <= 90 THEN r[k] + 32 ELSE r[k]]
IsSpace(c) == c \in {9, 10, 11, 12, 13, 32, 133, 160}
RECURSIVE TrimLeft(_)
TrimLeft(r) == IF r # <<>> /\ IsSpace(Head(r)) THEN TrimLeft(Tail(r)) ELSE r
RECURSIVE TrimRight(_)
TrimRight(r) ==
  IF r # <<>> /\ IsSpace(r[Len(r)]) THEN TrimRight(SubSeq(r, 1, Len(r) - 1)) ELSE r
TrimSpace(r) == TrimLeft(TrimRight(r))

\* confirmDevicesFound, as a function of the word fmt.Scanln has read:
\* false for "n" and "no", true for everything else.
confirmDevicesFound(response) ==
  ToLower(TrimSpace(response)) \notin {<<110>>, <<110, 111>>}

\* The words tried: "", "n", "N", "no", "No", "NO", "y", "Y", "yes", "nope",
\* "on", "x".
Responses ==
  {<<>>, <<110>>, <<78>>, <<110, 111>>, <<78, 111>>, <<78, 79>>, <<121>>,
   <<89>>, <<121, 101, 115>>, <<110, 111, 112, 101>>, <<111, 110>>, <<120>>}

\* The state when DiscoverAndPairDevices, called with a valid name, has
\* called discoverInteractively and the discovery goroutine runs.
InitDiscover ==
  /\ flow = "discover"
  /\ devices = <<>>
  /\ InitCommon
  /\ NoBatch
  /\ name = <<97>>
  /\ entry = "DiscoverAndPairDevices"
  /\ entryPc = "scanning"
  /\ entryErr = NoErr
  /\ scanStarted = TRUE
  /\ pairStarted = FALSE
  /\ window \in {s * TicksPerSecond : s \in ScanTimeouts}
  /\ clock = 0
  /\ scanPc = "select"
  /\ discPc = "scanning"
  /\ cancelled = FALSE
  /\ emitted = 0
  /\ lastEmit = 0
  /\ deviceChan = <<>>
  /\ found = <<>>
  /\ quietTimer = NoTimer
  /\ spinTick = FALSE
  /\ spinner = [idx |-> 0, active |-> TRUE]
  /\ stopBy = "none"
  /\ stopTime = 0
  /\ asked = <<>>
  /\ scanResult = <<>>
  /\ NoDevice

\* The discovery reports a device: the callback sends it on deviceChan, and
\* blocks while the buffer is full.
DeviceFound ==
  /\ discPc = "scanning"
  /\ ~scanCtxDone
  /\ emitted < MaxFound
  /\ emitted' = emitted + 1
  /\ lastEmit' = clock
  /\ IF Len(deviceChan) < DeviceChanCap
       THEN /\ deviceChan' = Append(deviceChan, emitted + 1)
            /\ UNCHANGED discPc
       ELSE /\ discPc' = "blocked"
            /\ UNCHANGED deviceChan
  /\ UNCHANGED <<notScan, window, clock, scanPc,
                 cancelled, found, quietTimer, spinTick, spinner, stopBy,
                 stopTime, asked, scanResult>>

\* The blocked send of the callback completes once the buffer has room.
SendUnblocked ==
  /\ discPc = "blocked"
  /\ Len(deviceChan) < DeviceChanCap
  /\ deviceChan' = Append(deviceChan, emitted)
  /\ discPc' = "scanning"
  /\ UNCHANGED <<notScan, window, clock, scanPc,
                 cancelled, emitted, lastEmit, found, quietTimer, spinTick,
                 spinner, stopBy, stopTime, asked, scanResult>>

\* discovery.DiscoverDevices returns once its context is done; close(done).
DiscoveryReturns ==
  /\ discPc = "scanning"
  /\ scanCtxDone
  /\ discPc' = "returned"
  /\ UNCHANGED <<notScan, window, clock, scanPc,
                 cancelled, emitted, lastEmit, deviceChan, found, quietTimer,
                 spinTick, spinner, stopBy, stopTime, asked, scanResult>>

\* devices = append(devices, device)
Collect_Front(ds, d) == <<d>> \o ds
Collect(ds, d) == Append(ds, d)
\* quietTimer = time.After(quietPeriod)
RestartQuiet_KeepRunning(old) == IF old = NoTimer THEN clock + QuietPeriod ELSE old
RestartQuiet(old) == clock + QuietPeriod

\* case device := <-deviceChan
SelectDevice ==
  /\ scanPc = "select"
  /\ deviceChan # <<>>
  /\ found' = Collect(found, Head(deviceChan))
  /\ deviceChan' = Tail(deviceChan)
  /\ quietTimer' = RestartQuiet(quietTimer)
  /\ UNCHANGED <<notScan, window, clock, scanPc,
                 discPc, cancelled, emitted, lastEmit, spinTick, spinner,
                 stopBy, stopTime, asked, scanResult>>

\* spinner.tick()
SpinnerTicked(sp) ==
  IF sp.active THEN [sp EXCEPT !.idx = (sp.idx + 1) % SpinnerFrames] ELSE sp
\* spinner.stop()
SpinnerStopped(sp) == [sp EXCEPT !.active = FALSE]

\* case <-spinnerTicker.C
SelectSpinner ==
  /\ scanPc = "select"
  /\ spinTick
  /\ spinTick' = FALSE
  /\ spinner' = SpinnerTicked(spinner)
  /\ UNCHANGED <<notScan, window, clock, scanPc,
                 discPc, cancelled, emitted, lastEmit, deviceChan, found,
                 quietTimer, stopBy, stopTime, asked, scanResult>>

\* A receive from the nil channel never proceeds; time.After sends once the
\* period has passed.
QuietFired == quietTimer # NoTimer /\ clock >= quietTimer

\* case <-quietTimer: cancel(), and then the wait for done
SelectQuiet ==
  /\ scanPc = "select"
  /\ QuietFired
  /\ cancelled' = TRUE
  /\ scanPc' = "waitDone"
  /\ stopBy' = "quiet"
  /\ stopTime' = clock
  /\ UNCHANGED <<notScan, window, clock, discPc,
                 emitted, lastEmit, deviceChan, found, quietTimer, spinTick,
                 spinner, asked, scanResult>>

\* spinner.stop(), and then: the question if there are devices, the return
\* of the empty list if there are none.
AfterDone ==
  /\ spinner' = SpinnerStopped(spinner)
  /\ IF Len(found) > 0
       THEN /\ scanPc' = "confirm"
            /\ UNCHANGED scanResult
       ELSE /\ scanPc' = "returned"
            /\ scanResult' = found

\* <-done after cancel()
WaitDone ==
  /\ scanPc = "waitDone"
  /\ discPc = "returned"
  /\ AfterDone
  /\ UNCHANGED <<notScan, window, clock, discPc,
                 cancelled, emitted, lastEmit, deviceChan, found, quietTimer,
                 spinTick, stopBy, stopTime, asked>>

\* case <-done
SelectDone_Scan ==
  /\ scanPc = "select"
  /\ discPc = "returned"
  /\ stopBy' = "done"
  /\ stopTime' = clock
  /\ AfterDone
  /\ UNCHANGED <<notScan, window, clock, discPc,
                 cancelled, emitted, lastEmit, deviceChan, found, quietTimer,
                 spinTick, asked>>

\* if !confirmDevicesFound() { return nil }; return devices
AfterAnswer_KeepsList(ok, ds) == ds
AfterAnswer(ok, ds) == IF ok THEN ds ELSE <<>>

Confirm ==
  /\ scanPc = "confirm"
  /\ \E response \in Responses :
       /\ asked' = Append(asked, response)
       /\ scanResult' = AfterAnswer(confirmDevicesFound(response), found)
  /\ scanPc' = "returned"
  /\ UNCHANGED <<notScan, window, clock, discPc,
                 cancelled, emitted, lastEmit, deviceChan, found, quietTimer,
                 spinTick, spinner, stopBy, stopTime>>

\* DiscoverAndPairDevices once discoverInteractively has returned:
\* if len(devices) == 0 { return fmt.Errorf("no HomeWizard devices ...") },
\* otherwise pairDevicesParallel(devices, name).
AfterScan ==
  /\ flow = "discover"
  /\ entryPc = "scanning"
  /\ scanPc = "returned"
  /\ IF Len(scanResult) = 0
       THEN /\ entryErr' = ErrNoDevices
            /\ entryPc' = "returned"
            /\ UNCHANGED pairStarted
       ELSE /\ pairStarted' = TRUE
            /\ entryPc' = "pairing"
            /\ UNCHANGED entryErr
  /\ UNCHANGED <<flow, pairVars, batchVars, name, entry, scanStarted,
                 discVars, devVars, ctlVars, linkVars, raceVars>>

\* The scan loop has a case to take, or one of the goroutines a step.
ScanBusy ==
  \/ scanPc = "select" /\ (deviceChan # <<>> \/ spinTick \/ QuietFired \/ discPc = "returned")
  \/ scanPc = "waitDone" /\ discPc = "returned"
  \/ discPc = "scanning" /\ scanCtxDone
  \/ discPc = "blocked" /\ Len(deviceChan) < DeviceChanCap

\* 100 ms pass: the spinner's ticker sends a tick unless one is waiting.
ScanTime ==
  /\ scanPc = "select"
  /\ ~ScanBusy
  /\ clock' = clock + SpinnerInterval
  /\ spinTick' = TRUE
  /\ UNCHANGED <<notScan, window, scanPc, discPc,
                 cancelled, emitted, lastEmit, deviceChan, found, quietTimer,
                 spinner, stopBy, stopTime, asked, scanResult>>

NextDiscover ==
  \/ ScanTime
  \/ DeviceFound
  \/ SendUnblocked
  \/ DiscoveryReturns
  \/ SelectDevice
  \/ SelectSpinner
  \/ SelectQuiet
  \/ WaitDone
  \/ SelectDone_Scan
  \/ Confirm
  \/ AfterScan

SpecDiscover == InitDiscover /\ [][NextDiscover]_vars

(***************************************************************************)
(* The adapters: construction, the message handlers, the accessors.        *)
(***************************************************************************)
\* NewP1MeterDevice and NewKWHMeterDevice
InitAdapter ==
  /\ flow = "adapter"
  /\ devices = <<>>
  /\ InitCommon
  /\ NoBatch
  /\ NoEntry
  /\ NoDiscovery
  /\ host = GoodHost
  /\ devType \in {"p1meter", "kwhmeter"}
  /\ maxAge \in 1..MaxAgeBound
  /\ measurement = NewMonitor(ZeroMeasurement)
  /\ batteriesData = NewMonitor(ZeroBatteries)
  /\ lastMsg = NoMsg
  /\ call = NoCall
  /\ NoControl

\* baseMeterDevice.handleMessage: what it does to the measurement cache, and
\* the error it returns.
handleMessage_SetsZero(msgType, p) ==
  IF msgType = "measurement"
    THEN IF p.ok
           THEN [measurement |-> MonitorSet(UnmarshalMeasurement(devType, p)),
                 err |-> NoErr]
           ELSE [measurement |-> measurement, err |-> ErrUnmarshalMeasurement]
    ELSE [measurement |-> MonitorSet(ZeroMeasurement), err |-> NoErr]
handleMessage_KeepsFirst(msgType, p) ==
  IF msgType = "measurement"
    THEN IF p.ok
           THEN [measurement |->
                   IF measurement.written THEN measurement
                   ELSE MonitorSet(UnmarshalMeasurement(devType, p)),
                 err |-> NoErr]
           ELSE [measurement |-> measurement, err |-> ErrUnmarshalMeasurement]
    ELSE [measurement |-> measurement, err |-> NoErr]
handleMessage_SetsBeforeCheck(msgType, p) ==
  IF msgType = "measurement"
    THEN IF p.ok
           THEN [measurement |-> MonitorSet(UnmarshalMeasurement(devType, p)),
                 err |-> NoErr]
           ELSE [measurement |-> MonitorSet(ZeroMeasurement),
                 err |-> ErrUnmarshalMeasurement]
    ELSE [measurement |-> measurement, err |-> NoErr]
handleMessage(msgType, p) ==
  IF msgType = "measurement"
    THEN IF p.ok
           THEN [measurement |-> MonitorSet(UnmarshalMeasurement(devType, p)),
                 err |-> NoErr]
           ELSE [measurement |-> measurement, err |-> ErrUnmarshalMeasurement]
    ELSE [measurement |-> measurement, err |-> NoErr]

\* P1MeterDevice.handleP1Message
handleP1Message(msgType, p) ==
  IF msgType = "batteries"
    THEN IF p.ok
           THEN [measurement |-> measurement,
                 batteriesData |-> MonitorSet(UnmarshalBatteries(p)),
                 err |-> NoErr]
           ELSE [measurement |-> measurement, batteriesData |-> batteriesData,
                 err |-> ErrUnmarshalBatteries]
    ELSE LET r == handleMessage(msgType, p)
         IN [measurement |-> r.measurement, batteriesData |-> batteriesData,
             err |-> r.err]

\* The handler given to NewConnection.
Handler(msgType, p) ==
  IF devType = "p1meter" THEN handleP1Message(msgType, p)
  ELSE LET r == handleMessage(msgType, p)
       IN [measurement |-> r.measurement, batteriesData |-> batteriesData,
           err |-> r.err]

\* The connection delivers a message to the handler.
HandleMessage ==
  /\ flow = "adapter"
  /\ \E msgType \in MessageTypes :
       \E p \in PayloadsOf(msgType) :
         LET r == Handler(msgType, p)
         IN /\ measurement' = r.measurement
            /\ batteriesData' = r.batteriesData
            /\ lastMsg' = [type |-> msgType, payload |-> p, err |-> r.err]
  /\ call' = NoCall
  /\ UNCHANGED <<flow, pairVars, batchVars, entryVars, discVars, host, devType,
                 maxAge, ctlVars, linkVars, raceVars>>

\* GetMeasurement
GetMeasurement_ServesStale ==
  LET g == MonitorGet(measurement)
  IN Result(g.val, <<>>, NoErr)
GetMeasurementOf(g) ==
  IF g.err # NoErr THEN Result(ZeroMeasurement, <<>>, ApiErrTimeout)
  ELSE Result(g.val, <<>>, NoErr)
GetMeasurement == GetMeasurementOf(MonitorGet(measurement))

Neg(x) == 0 - x
Failed(n, err) == Result(ZeroMeasurement, [k \in 1..n |-> 0], err)

\* baseMeterDevice.GetPower(invertForPV)
GetPowerBase(invertForPV) ==
  LET r == GetMeasurement
  IN IF r.err # NoErr THEN Failed(1, r.err)
     ELSE Result(ZeroMeasurement,
                 <<IF invertForPV THEN Neg(r.m["power_w"]) ELSE r.m["power_w"]>>,
                 NoErr)

\* baseMeterDevice.GetPhasePowers(phases, invertForPV)
GetPhasePowersBase(phases, invertForPV) ==
  LET r == GetMeasurement
      p == IF phases = 1 THEN <<r.m["power_w"], 0, 0>>
           ELSE <<r.m["power_l1_w"], r.m["power_l2_w"], r.m["power_l3_w"]>>
  IN IF r.err # NoErr THEN Failed(3, r.err)
     ELSE Result(ZeroMeasurement,
                 IF invertForPV THEN <<Neg(p[1]), Neg(p[2]), Neg(p[3])>> ELSE p,
                 NoErr)

\* baseMeterDevice.GetPhaseCurrents(phases)
GetPhaseCurrents(phases) ==
  LET r == GetMeasurement
  IN IF r.err # NoErr THEN Failed(3, r.err)
     ELSE IF phases = 1 THEN Result(ZeroMeasurement, <<r.m["current_a"], 0, 0>>, NoErr)
     ELSE Result(ZeroMeasurement,
                 <<r.m["current_l1_a"], r.m["current_l2_a"], r.m["current_l3_a"]>>,
                 NoErr)

\* baseMeterDevice.GetPhaseVoltages(phases)
GetPhaseVoltages_AlwaysLines(phases) ==
  LET r == GetMeasurement
  IN IF r.err # NoErr THEN Failed(3, r.err)
     ELSE Result(ZeroMeasurement,
                 <<r.m["voltage_l1_v"], r.m["voltage_l2_v"], r.m["voltage_l3_v"]>>,
                 NoErr)
GetPhaseVoltages(phases) ==
  LET r == GetMeasurement
  IN IF r.err # NoErr THEN Failed(3, r.err)
     ELSE IF phases = 1 THEN Result(ZeroMeasurement, <<r.m["voltage_v"], 0, 0>>, NoErr)
     ELSE Result(ZeroMeasurement,
                 <<r.m["voltage_l1_v"], r.m["voltage_l2_v"], r.m["voltage_l3_v"]>>,
                 NoErr)

\* P1MeterDevice.GetPower()
GetPowerP1 ==
  LET r == GetMeasurement
  IN IF r.err # NoErr THEN Failed(1, r.err)
     ELSE Result(ZeroMeasurement, <<r.m["power_w"]>>, NoErr)

\* P1MeterDevice.GetPhasePowers(phases)
GetPhasePowersP1(phases) ==
  LET r == GetMeasurement
  IN IF r.err # NoErr THEN Failed(3, r.err)
     ELSE IF phases = 1 THEN Result(ZeroMeasurement, <<r.m["power_w"], 0, 0>>, NoErr)
     ELSE Result(ZeroMeasurement,
                 <<r.m["power_l1_w"], r.m["power_l2_w"], r.m["power_l3_w"]>>,
                 NoErr)

\* P1MeterDevice.GetTotalEnergy()
GetTotalEnergyP1 ==
  LET r == GetMeasurement
  IN IF r.err # NoErr THEN Failed(1, r.err)
     ELSE Result(ZeroMeasurement,
                 <<r.m["energy_import_t1_kwh"] + r.m["energy_import_t2_kwh"]>>,
                 NoErr)

\* KWHMeterDevice.GetTotalEnergy(usePVExport)
GetTotalEnergyKWH(usePVExport) ==
  LET r == GetMeasurement
  IN IF r.err # NoErr THEN Failed(1, r.err)
     ELSE Result(ZeroMeasurement,
                 <<IF usePVExport THEN r.m["energy_export_kwh"]
                   ELSE r.m["energy_import_kwh"]>>,
                 NoErr)

\* P1MeterDevice.GetBatteryPowerLimits()
GetBatteryPowerLimits_NoCheck ==
  LET g == MonitorGet(batteriesData)
  IN Result(ZeroMeasurement, <<g.val.MaxConsumptionW, g.val.MaxProductionW>>, NoErr)
GetBatteryPowerLimits ==
  LET g == MonitorGet(batteriesData)
  IN IF g.err # NoErr THEN Failed(2, ApiErrTimeout)
     ELSE Result(ZeroMeasurement,
                 <<g.val.MaxConsumptionW, g.val.MaxProductionW>>, NoErr)

\* The accessors of the two adapters, and the arguments tried.
Accessors ==
  {"GetMeasurement", "GetPower", "GetPhasePowers", "GetPhaseCurrents",
   "GetPhaseVoltages", "GetTotalEnergy", "GetBatteryPowerLimits"}
HasPhases(fn) == fn \in {"GetPhasePowers", "GetPhaseCurrents", "GetPhaseVoltages"}
HasFlag(fn) ==
  devType = "kwhmeter" /\ fn \in {"GetPower", "GetPhasePowers", "GetTotalEnergy"}
PhasesTried == {1, 3}

Invoke(fn, phases, flag) ==
  CASE fn = "GetMeasurement" -> GetMeasurement
    [] fn = "GetPower" ->
         IF devType = "p1meter" THEN GetPowerP1 ELSE GetPowerBase(flag)
    [] fn = "GetPhasePowers" ->
         IF devType = "p1meter" THEN GetPhasePowersP1(phases)
         ELSE GetPhasePowersBase(phases, flag)
    [] fn = "GetPhaseCurrents" -> GetPhaseCurrents(phases)
    [] fn = "GetPhaseVoltages" -> GetPhaseVoltages(phases)
    [] fn = "GetTotalEnergy" ->
         IF devType = "p1meter" THEN GetTotalEnergyP1 ELSE GetTotalEnergyKWH(flag)
    [] fn = "GetBatteryPowerLimits" -> GetBatteryPowerLimits

\* The application calls an accessor.
CallAccessor ==
  /\ flow = "adapter"
  /\ \E fn \in Accessors, phases \in PhasesTried, flag \in BOOLEAN :
       /\ fn = "GetBatteryPowerLimits" => devType = "p1meter"
       /\ ~HasPhases(fn) => phases = 1
       /\ ~HasFlag(fn) => ~flag
       /\ call' = [fn |-> fn, phases |-> phases, flag |-> flag,
                   res |-> Invoke(fn, phases, flag)]
  /\ lastMsg' = NoMsg
  /\ UNCHANGED <<flow, pairVars, batchVars, entryVars, discVars, host, devType,
                 maxAge, measurement, batteriesData, ctlVars, linkVars,
                 raceVars>>

\* A second passes.
AdapterTime ==
  /\ flow = "adapter"
  /\ now < MaxClock
  /\ now' = now + 1
  /\ lastMsg' = NoMsg
  /\ call' = NoCall
  /\ UNCHANGED <<flow, devices, pc, attempt, tickC, inflight, ret, reported,
                 requests, answers, batchVars, entryVars, discVars, host, devType,
                 maxAge, measurement, batteriesData, ctlVars, linkVars,
                 raceVars>>

NextAdapter ==
  \/ HandleMessage
  \/ CallAccessor
  \/ AdapterTime

SpecAdapter == InitAdapter /\ [][NextAdapter]_vars

(***************************************************************************)
(* The measurement cache read by an accessor while the handler stores a    *)
(* measurement.  The cache keeps its value and the time of the write under *)
(* one lock, which Set and Get take for their reads and writes.            *)
(***************************************************************************)
\* The most measurements stored, and the last second looked at.
MaxWrites == 2
MaxRaceClock == 2

InitRace ==
  /\ flow = "race"
  /\ devices = <<>>
  /\ InitCommon
  /\ NoBatch
  /\ NoEntry
  /\ NoDiscovery
  /\ host = GoodHost
  /\ devType = "p1meter"
  /\ maxAge = 1
  /\ measurement = NewMonitor(ZeroMeasurement)
  /\ batteriesData = NewMonitor(ZeroBatteries)
  /\ lastMsg = NoMsg
  /\ call = NoCall
  /\ connState = "Connected"
  /\ notified = TRUE
  /\ errC = "empty"
  /\ startPc = "idle"
  /\ startTimeout = 0
  /\ deadline = 0
  /\ startRet = "<running>"
  /\ stops = 0
  /\ sbmPc = "idle"
  /\ sbmMode = "none"
  /\ sbmRet = "<running>"
  /\ sent = <<>>
  /\ httpPuts = <<>>
  /\ httpErr = <<>>
  /\ reachable = TRUE
  /\ retryAt = NoTimer
  /\ inbound = <<>>
  /\ lastGood = Undecodable
  /\ stopFrom = "none"
  /\ sendErrs = <<>>
  /\ dials = 1
  /\ monMu = "free"
  /\ wPc = "idle"
  /\ wLocal = ZeroMeasurement
  /\ rPc = "idle"
  /\ rGot = NoRead
  /\ records = {NewMonitor(ZeroMeasurement)}

notRace == <<flow, pairVars, batchVars, entryVars, discVars, host, devType,
            maxAge,
             batteriesData, lastMsg, ctlVars, linkVars>>

\* The lock of the cache is granted to a caller when no one holds it.
MonitorLockGranted_Unguarded == TRUE
MonitorLockGranted == monMu = "free"

\* handleMessage: var m T; json.Unmarshal(data, &m) has succeeded.
WDecode ==
  /\ flow = "race"
  /\ wPc = "idle"
  /\ Cardinality(records) <= MaxWrites
  /\ \E k \in 1..2 :
       wLocal' = UnmarshalMeasurement(devType, MeasurementPayload(k))
  /\ wPc' = "decoded"
  /\ UNCHANGED <<notRace, now, measurement, call, monMu, rPc, rGot, records>>

\* d.measurement.Set(m): the lock is taken,
WLock ==
  /\ wPc = "decoded"
  /\ MonitorLockGranted
  /\ monMu' = "writer"
  /\ wPc' = "locked"
  /\ UNCHANGED <<notRace, now, measurement, call, wLocal, rPc, rGot, records>>

\* the value is stored,
WVal ==
  /\ wPc = "locked"
  /\ measurement' = [measurement EXCEPT !.val = wLocal]
  /\ wPc' = "val"
  /\ UNCHANGED <<notRace, now, call, monMu, wLocal, rPc, rGot, records>>

\* the time of the write is stored and the lock released.
WStamp ==
  /\ wPc = "val"
  /\ measurement' = [measurement EXCEPT !.at = now, !.written = TRUE]
  /\ records' = records \cup {measurement'}
  /\ monMu' = IF monMu = "writer" THEN "free" ELSE monMu
  /\ wPc' = "idle"
  /\ UNCHANGED <<notRace, now, call, wLocal, rPc, rGot>>

\* GetMeasurement: d.measurement.Get(): the lock is taken,
RLock ==
  /\ flow = "race"
  /\ rPc = "idle"
  /\ MonitorLockGranted
  /\ monMu' = IF monMu = "free" THEN "reader" ELSE monMu
  /\ rPc' = "locked"
  /\ rGot' = NoRead
  /\ call' = NoCall
  /\ UNCHANGED <<notRace, now, measurement, wPc, wLocal, records>>

\* the value is read,
RVal ==
  /\ rPc = "locked"
  /\ rGot' = [rGot EXCEPT !.val = measurement.val]
  /\ rPc' = "val"
  /\ UNCHANGED <<notRace, now, measurement, call, monMu, wPc, wLocal, records>>

\* the time of the write is read and compared with the clock, and the
\* lock released.
RStamp ==
  /\ rPc = "val"
  /\ rGot' = [rGot EXCEPT !.at = measurement.at,
                          !.written = measurement.written,
                          !.err = IF MonitorFresh(measurement) THEN NoErr
                                  ELSE ErrOutdated]
  /\ monMu' = IF monMu = "reader" THEN "free" ELSE monMu
  /\ rPc' = "got"
  /\ UNCHANGED <<notRace, now, measurement, call, wPc, wLocal, records>>

\* GetMeasurement returns.
RReturn ==
  /\ rPc = "got"
  /\ call' = [fn |-> "GetMeasurement", phases |-> 1, flag |-> FALSE,
              res |-> GetMeasurementOf(rGot)]
  /\ rPc' = "idle"
  /\ UNCHANGED <<notRace, now, measurement, monMu, wPc, wLocal, rGot, records>>

\* A second passes.
RaceTime ==
  /\ flow = "race"
  /\ now < MaxRaceClock
  /\ now' = now + 1
  /\ UNCHANGED <<flow, devices, pc, attempt, tickC, inflight, ret, reported,
                 requests, answers, batchVars, entryVars, otherVars>>

NextRace ==
  \/ WDecode
  \/ WLock
  \/ WVal
  \/ WStamp
  \/ RLock
  \/ RVal
  \/ RStamp
  \/ RReturn
  \/ RaceTime

SpecRace == InitRace /\ [][NextRace]_vars

(***************************************************************************)
(* StartAndWait and SetBatteryMode of the P1 meter, over the connection.   *)
(* The connection (not in this module's sources) is known by its contract: *)
(* Start makes it connect and notify the outcome of the first handshake    *)
(* once; it reconnects after a link loss; Send writes a message while the  *)
(* link is Connected and fails otherwise; Stop ends it for good.  Time is  *)
(* counted in seconds.                                                     *)
(***************************************************************************)
\* The longest timeout given to StartAndWait, the last second looked at,
\* the most calls of SetBatteryMode, and the most frames of a session that
\* wait to be read.
MaxStartTimeout == 2
MaxControlClock == 3
MaxModeCalls == 1
MaxInbound == 2

\* The delay between a link loss, or a failed handshake, and the next
\* attempt to connect.
ReconnectDelay == 1

ErrConnTimeout == "connection timeout"
ErrDial == "dial failed"
ErrNotConnected == "not connected"
ErrWrite == "write failed"
\* fmt.Errorf("connecting to device: %w", err)
WrapConnErr(err) == "connecting to device: " \o err

\* The modes tried: the three of the device, and one it does not know.
Modes == {"zero", "to_full", "standby", "bogus"}

\* The outcomes of DoJSON: nil for a 200 with the device's answer, an error
\* for every other status and for a request that got no response.
DoJSONOutcomes == {NoErr, "HTTP 400", "HTTP 500", "no response"}

\* The frames a device sends on a session: measurements, the battery
\* data, a frame of another type; the first two may be cut short.
StreamTypes == {"measurement", "batteries", "system"}
StreamPayloads(msgType) ==
  CASE msgType = "measurement" ->
         {Undecodable, MeasurementPayload(1), MeasurementPayload(2)}
    [] msgType = "batteries" -> {Undecodable, BatteriesPayload(800, 700)}
    [] OTHER -> {EmptyObject}

InitControl ==
  /\ flow = "control"
  /\ devices = <<>>
  /\ InitCommon
  /\ NoBatch
  /\ NoEntry
  /\ NoDiscovery
  /\ host \in Hosts
  /\ devType = "p1meter"
  /\ maxAge = 1
  /\ measurement = NewMonitor(ZeroMeasurement)
  /\ batteriesData = NewMonitor(ZeroBatteries)
  /\ lastMsg = NoMsg
  /\ call = NoCall
  /\ connState = "Disconnected"
  /\ notified = FALSE
  /\ errC = "empty"
  /\ startPc = "idle"
  /\ startTimeout \in 0..MaxStartTimeout
  /\ deadline = 0
  /\ startRet = "<running>"
  /\ stops = 0
  /\ sbmPc = "idle"
  /\ sbmMode = "none"
  /\ sbmRet = "<running>"
  /\ sent = <<>>
  /\ httpPuts = <<>>
  /\ httpErr = <<>>
  /\ reachable = Dialable(host)
  /\ retryAt = NoTimer
  /\ inbound = <<>>
  /\ lastGood = Undecodable
  /\ stopFrom = "none"
  /\ sendErrs = <<>>
  /\ dials = 0
  /\ monMu = "free"
  /\ wPc = "idle"
  /\ wLocal = ZeroMeasurement
  /\ rPc = "idle"
  /\ rGot = NoRead
  /\ records = {}

\* A device whose connection is used without StartAndWait: Start, the
\* frames it receives, Stop.
InitStream ==
  /\ flow = "stream"
  /\ devices = <<>>
  /\ InitCommon
  /\ NoBatch
  /\ NoEntry
  /\ NoDiscovery
  /\ host = GoodHost
  /\ devType \in {"p1meter", "kwhmeter"}
  /\ maxAge = 1
  /\ measurement = NewMonitor(ZeroMeasurement)
  /\ batteriesData = NewMonitor(ZeroBatteries)
  /\ lastMsg = NoMsg
  /\ call = NoCall
  /\ NoControl

\* What the steps of the connection leave alone.
notControl == <<flow, devices, pc, attempt, tickC, inflight, ret, reported,
                requests, answers, batchVars, entryVars, discVars, devVars,
                raceVars>>
\* What StartAndWait and SetBatteryMode keep of their own.
callVars == <<startPc, startTimeout, deadline, startRet, sbmPc, sbmMode,
              sbmRet, sent, httpPuts, httpErr, sendErrs>>
linkHist == <<lastGood, stopFrom>>

\* The connection gives up after no number of attempts.
RetryAllowed_Twice(n) == n < 2
RetryAllowed(n) == TRUE

\* Connection.Start: Disconnected -> Connecting.
ConnStart(st) == IF st = "Disconnected" THEN "Connecting" ELSE st
\* Connection.Stop: from any state to the terminal state.
ConnStop(st) == "Stopped"

\* deviceBase.Stop: d.conn.Stop()
Stop_Forgets(st) == st
Stop(st) == ConnStop(st)

\* What a call of d.Stop() does: the connection is in its terminal state,
\* has released its session and has no retry pending.
StopConn ==
  LET st == Stop(connState)
  IN /\ connState' = st
     /\ stops' = stops + 1
     /\ stopFrom' = connState
     /\ retryAt' = IF st = "Stopped" THEN NoTimer ELSE retryAt
     /\ inbound' = IF st = "Stopped" THEN <<>> ELSE inbound

\* StartAndWait up to its select: errC := make(chan error, 1); d.Start(errC);
\* time.After(timeout).
StartAndWaitCall ==
  /\ flow = "control"
  /\ startPc = "idle"
  /\ now + startTimeout <= MaxControlClock
  /\ connState' = ConnStart(connState)
  /\ dials' = IF connState = "Disconnected" THEN dials + 1 ELSE dials
  /\ deadline' = now + startTimeout
  /\ startPc' = "select"
  /\ UNCHANGED <<notControl, now, notified, errC, startTimeout, startRet,
                 stops, sbmPc, sbmMode, sbmRet, sent, httpPuts, httpErr,
                 sendErrs, reachable, retryAt, inbound, linkHist>>

\* deviceBase.Start: d.conn.Start(errC)
StartCall ==
  /\ flow = "stream"
  /\ connState = "Disconnected"
  /\ connState' = ConnStart(connState)
  /\ dials' = dials + 1
  /\ UNCHANGED <<notControl, now, notified, errC, stops, callVars, reachable,
                 retryAt, inbound, linkHist>>

\* A handshake with a device that answers: the first one, or a later one
\* after a link loss.
HandshakeOk ==
  /\ connState = "Connecting"
  /\ reachable
  /\ connState' = "Connected"
  /\ IF notified THEN UNCHANGED errC ELSE errC' = NoErr
  /\ notified' = TRUE
  /\ UNCHANGED <<notControl, now, stops, callVars, reachable, retryAt,
                 inbound, linkHist, dials>>

\* A handshake with a device that does not answer: the connection will
\* retry after the delay.
HandshakeFails ==
  /\ connState = "Connecting"
  /\ ~reachable
  /\ connState' = "Reconnecting"
  /\ retryAt' = now + ReconnectDelay
  /\ IF notified THEN UNCHANGED errC ELSE errC' = ErrDial
  /\ notified' = TRUE
  /\ UNCHANGED <<notControl, now, stops, callVars, reachable, inbound,
                 linkHist, dials>>

\* The link is lost: the session is closed, with the frames not yet read.
LinkLoss ==
  /\ connState = "Connected"
  /\ connState' = "Reconnecting"
  /\ retryAt' = now + ReconnectDelay
  /\ inbound' = <<>>
  /\ UNCHANGED <<notControl, now, notified, errC, stops, callVars, reachable,
                 linkHist, dials>>

\* The retry, once the delay has passed.
Reconnect ==
  /\ connState = "Reconnecting"
  /\ retryAt # NoTimer
  /\ now >= retryAt
  /\ RetryAllowed(dials)
  /\ connState' = "Connecting"
  /\ retryAt' = NoTimer
  /\ dials' = dials + 1
  /\ UNCHANGED <<notControl, now, notified, errC, stops, callVars, reachable,
                 inbound, linkHist>>

\* The device goes off the network, or comes back.
ReachChange ==
  /\ flow \in {"control", "stream"}
  /\ Dialable(host)
  /\ reachable' = ~reachable
  /\ UNCHANGED <<notControl, now, connState, notified, errC, stops, callVars,
                 retryAt, inbound, linkHist, dials>>

\* time.After(timeout) has sent.
TimerFired_Never == FALSE
TimerFired == now >= deadline

\* case err := <-errC
SelectErrC ==
  /\ startPc = "select"
  /\ errC # "empty"
  /\ errC' = "empty"
  /\ IF errC # NoErr
       THEN /\ StopConn
            /\ startRet' = WrapConnErr(errC)
       ELSE /\ startRet' = NoErr
            /\ UNCHANGED <<connState, stops, stopFrom, retryAt, inbound>>
  /\ startPc' = "returned"
  /\ UNCHANGED <<notControl, now, notified, startTimeout, deadline, sbmPc,
                 sbmMode, sbmRet, sent, httpPuts, httpErr, sendErrs,
                 reachable, lastGood, dials>>

\* case <-time.After(timeout)
SelectTimeout ==
  /\ startPc = "select"
  /\ TimerFired
  /\ StopConn
  /\ startRet' = ErrConnTimeout
  /\ startPc' = "returned"
  /\ UNCHANGED <<notControl, now, notified, errC, startTimeout, deadline,
                 sbmPc, sbmMode, sbmRet, sent, httpPuts, httpErr, sendErrs,
                 reachable, lastGood, dials>>

\* Connection.Send: the outcomes it can have in a link state.
SendOutcomes_AnyState(st) == {NoErr, ErrWrite}
SendOutcomes(st) ==
  IF st = "Connected" THEN {NoErr, ErrWrite} ELSE {ErrNotConnected}

\* if err := d.conn.Send(wsMsg); err != nil
FallsBack_Always(sendErr) == TRUE
FallsBack(sendErr) == sendErr # NoErr

\* setBatteryModeHTTP passes its own argument on.
HttpMode(mode) == mode

\* uri := fmt.Sprintf("https://%s/api/batteries", d.host);
\* req, err := request.New(http.MethodPut, uri, ...): the error of the URL
\* parser, nil if the URL parses.
ErrParse == "invalid character in host name"
requestNew(h) == IF UrlParses(h) THEN NoErr ELSE ErrParse

\* SetBatteryMode up to its first wait: d.conn.Send(wsMsg), and on an error
\* setBatteryModeHTTP(mode), which returns the error of request.New at once
\* and otherwise issues the request.
SetBatteryModeCall ==
  /\ flow = "control"
  /\ sbmPc \in {"idle", "returned"}
  /\ Len(sendErrs) < MaxModeCalls
  /\ \E mode \in Modes, sendErr \in SendOutcomes(connState) :
       /\ sbmMode' = mode
       /\ sendErrs' = Append(sendErrs, sendErr)
       /\ sent' = IF sendErr = NoErr THEN Append(sent, mode) ELSE sent
       /\ IF ~FallsBack(sendErr)
            THEN /\ sbmPc' = "sleep"
                 /\ sbmRet' = "<running>"
                 /\ UNCHANGED httpPuts
            ELSE IF requestNew(host) # NoErr
              THEN /\ sbmPc' = "returned"
                   /\ sbmRet' = requestNew(host)
                   /\ UNCHANGED httpPuts
              ELSE /\ httpPuts' = Append(httpPuts, HttpMode(mode))
                   /\ sbmPc' = "http"
                   /\ sbmRet' = "<running>"
  /\ UNCHANGED <<notControl, now, connState, notified, errC, startPc,
                 startTimeout, deadline, startRet, stops, httpErr, reachable,
                 retryAt, inbound, linkHist, dials>>

\* time.Sleep(100 * time.Millisecond); return nil
SleepDone ==
  /\ sbmPc = "sleep"
  /\ sbmRet' = NoErr
  /\ sbmPc' = "returned"
  /\ UNCHANGED <<notControl, now, connState, notified, errC, startPc,
                 startTimeout, deadline, startRet, stops, sbmMode, sent,
                 httpPuts, httpErr, linkVars>>

\* if err := d.DoJSON(req, &res); err != nil { return err }; return nil
HttpResult_Swallowed(err) == NoErr
HttpResult(err) == err

HttpDone ==
  /\ sbmPc = "http"
  /\ \E err \in DoJSONOutcomes :
       /\ httpErr' = Append(httpErr, err)
       /\ sbmRet' = HttpResult(err)
  /\ sbmPc' = "returned"
  /\ UNCHANGED <<notControl, now, connState, notified, errC, startPc,
                 startTimeout, deadline, startRet, stops, sbmMode, sent,
                 httpPuts, linkVars>>

\* The device sends a frame on the session.
Receive ==
  /\ flow = "stream"
  /\ connState = "Connected"
  /\ reachable
  /\ Len(inbound) < MaxInbound
  /\ \E msgType \in StreamTypes :
       \E p \in StreamPayloads(msgType) :
         inbound' = Append(inbound, [type |-> msgType, payload |-> p])
  /\ lastMsg' = NoMsg
  /\ UNCHANGED <<flow, pairVars, batchVars, entryVars, discVars, host, devType,
                 maxAge, measurement, batteriesData, call, ctlVars, raceVars,
                 reachable,
                 retryAt, linkHist, sendErrs, dials>>

\* The frame the receive loop reads next.
NextFrame_Newest(q) == q[Len(q)]
NextFrame(q) == Head(q)

\* The receive loop reads a frame and hands its type and payload to the
\* handler; whatever the handler returns, it goes on with the next frame.
Dispatch ==
  /\ flow = "stream"
  /\ connState = "Connected"
  /\ inbound # <<>>
  /\ LET f == NextFrame(inbound)
         r == Handler(f.type, f.payload)
     IN /\ measurement' = r.measurement
        /\ batteriesData' = r.batteriesData
        /\ lastMsg' = [type |-> f.type, payload |-> f.payload, err |-> r.err]
        /\ lastGood' = IF f.type = "measurement" /\ f.payload.ok
                         THEN f.payload ELSE lastGood
  /\ inbound' = Tail(inbound)
  /\ UNCHANGED <<flow, pairVars, batchVars, entryVars, discVars, host, devType,
                 maxAge, call, ctlVars, raceVars, reachable, retryAt, stopFrom,
                 sendErrs, dials>>

\* The application calls Stop.
StopCall ==
  /\ flow = "stream"
  /\ stopFrom = "none"
  /\ StopConn
  /\ lastMsg' = NoMsg
  /\ UNCHANGED <<flow, pairVars, batchVars, entryVars, discVars, host, devType,
                 maxAge, measurement, batteriesData, call, notified, errC,
                 callVars, raceVars, reachable, lastGood, dials>>

\* A second passes, unless the select of StartAndWait has a case to take or
\* the pause of SetBatteryMode is about to end.
ControlTime ==
  /\ flow \in {"control", "stream"}
  /\ now < MaxControlClock
  /\ ~(startPc = "select" /\ (errC # "empty" \/ TimerFired))
  /\ sbmPc # "sleep"
  /\ now' = now + 1
  /\ UNCHANGED <<notControl, ctlVars, linkVars>>

NextControl ==
  \/ StartAndWaitCall
  \/ HandshakeOk
  \/ HandshakeFails
  \/ LinkLoss
  \/ Reconnect
  \/ ReachChange
  \/ SelectErrC
  \/ SelectTimeout
  \/ SetBatteryModeCall
  \/ SleepDone
  \/ HttpDone
  \/ ControlTime

SpecControl == InitControl /\ [][NextControl]_vars

\* A select takes one of its ready cases; the runtime's clock goes on; the
\* pause ends.
FairControl ==
  /\ WF_vars(SelectErrC)
  /\ WF_vars(SelectTimeout)
  /\ WF_vars(SleepDone)
  /\ WF_vars(ControlTime)

FairSpecControl == SpecControl /\ FairControl

NextStream ==
  \/ StartCall
  \/ HandshakeOk
  \/ HandshakeFails
  \/ LinkLoss
  \/ Reconnect
  \/ ReachChange
  \/ Receive
  \/ Dispatch
  \/ StopCall
  \/ ControlTime

SpecStream == InitStream /\ [][NextStream]_vars

\* The connection's goroutine runs: a handshake ends, the retry timer
\* fires; and the runtime's clock goes on.
FairStream ==
  /\ WF_vars(HandshakeOk)
  /\ WF_vars(HandshakeFails)
  /\ WF_vars(Reconnect)
  /\ WF_vars(ControlTime)

FairSpecStream == SpecStream /\ FairStream

\* The link alone: the connection of a device that sends no frames.
NextLink ==
  \/ StartCall
  \/ HandshakeOk
  \/ HandshakeFails
  \/ LinkLoss
  \/ Reconnect
  \/ ReachChange
  \/ StopCall
  \/ ControlTime

SpecLink == InitStream /\ [][NextLink]_vars
FairSpecLink == SpecLink /\ FairStream

(***************************************************************************)
(* Properties of one pairing attempt.                                      *)
(***************************************************************************)
Last(h) == h[Len(h)]
Returned(i) == pc[i] \in {"returned"}
\* An outcome of client.Do that is neither a decodable 200 nor a 403.
IsFatal(ans) ==
  \/ ans.kind = "transport"
  \/ ans.status \notin {StatusOK, StatusForbidden}
  \/ ans.status = StatusOK /\ ans.body = BadJson
IsToken(ans) ==
  ans.kind = "http" /\ ans.status = StatusOK /\ ans.body \in Tokens
Only403(i) == \A k \in 1..Len(answers[i]) : answers[i][k] = Pending403
PendingUpTo(i, n) ==
  Len(answers[i]) >= n /\ \A k \in 1..n : answers[i][k] = Pending403

\* C1: a device that answers 403 to polls 1..35 and 200 with a token to poll
\* 36 is paired: the attempt returns that token and the last attempt number
\* reported is 36.
C1_Original ==
  \A i \in Attempts :
    (/\ Returned(i)
     /\ PendingUpTo(i, DisplayedAttempts - 1)
     /\ Len(answers[i]) >= DisplayedAttempts => IsToken(answers[i][DisplayedAttempts]))
    => /\ Len(answers[i]) = DisplayedAttempts
       /\ ret[i] = [token |-> answers[i][DisplayedAttempts].body, err |-> NoErr]
       /\ Last(reported[i]) = DisplayedAttempts

\* C2: the attempt number passed to the progress callback never exceeds 36.
C2_Original ==
  \A i \in Attempts : \A k \in 1..Len(reported[i]) :
    reported[i][k] <= DisplayedAttempts

\* C3: an attempt that returns after the deadline has passed returns the
\* timeout error: never a token, never another error.
C3_Original ==
  \A i \in Attempts :
    (Returned(i) /\ now > PairTimeout) => ret[i] = [token |-> "", err |-> ErrTimeout]

\* C4: an attempt whose every token request is answered 403 terminates, and
\* it returns the timeout error.
C4_AllPendingTimesOut ==
  <>(\/ ~Only403(1)
     \/ Returned(1) /\ ret[1] = [token |-> "", err |-> ErrTimeout])

C4_Witness ==
  /\ Returned(1) /\ Only403(1) /\ Len(answers[1]) > DisplayedAttempts
  /\ ret[1].err = ErrTimeout

\* C5: the first answer that is neither 403 nor a decodable 200 is the last
\* one: the attempt has returned a non-timeout error, no further token
\* request was issued and the callback was not invoked again.
C5_FatalEndsAttempt ==
  \A i \in Attempts : \A k \in 1..Len(answers[i]) :
    IsFatal(answers[i][k])
      => /\ k = Len(answers[i])
         /\ Returned(i)
         /\ ret[i].token = "" /\ ret[i].err \notin {NoErr, ErrTimeout}
         /\ requests[i] = Len(answers[i])
         /\ Len(reported[i]) = requests[i]

C5_Witness ==
  /\ Returned(1) /\ Len(answers[1]) = 3
  /\ PendingUpTo(1, 2)
  /\ answers[1][3] = HttpAnswer(500, "")
  /\ ret[1].err = "error: HTTP 500"

\* C7: the callback is invoked once per token request, right before it, and
\* reports 1, 2, 3, ... .
C7_CallbackPerRequest ==
  \A i \in Attempts :
    /\ \A k \in 1..Len(reported[i]) : reported[i][k] = k
    /\ attempt[i] < MaxAttempts =>
         /\ Len(reported[i]) = (IF pc[i] = "onAttempt" THEN attempt[i] - 1 ELSE attempt[i])
         /\ requests[i] = (IF pc[i] = "request" THEN Len(reported[i]) - 1
                           ELSE Len(reported[i]))

C7_Witness ==
  /\ pc[1] = "request" /\ reported[1] = <<1, 2, 3>> /\ requests[1] = 2

(***************************************************************************)
(* Properties of the entry points.                                         *)
(***************************************************************************)
\* The rule of the specification: 1 to 40 characters, each a letter, a
\* digit, '-', '_', '/', '\', '#' or a space.
Letters == 65..90 \cup 97..122
Digits == 48..57
ValidName(nm) ==
  /\ Len(nm) \in 1..40
  /\ \A k \in 1..Len(nm) : nm[k] \in Letters \cup Digits \cup {45, 95, 47, 92, 35, 32}

\* C6: an entry point called with a name that breaks the rule returns the
\* invalid-name error, and starts neither a discovery scan nor a pairing
\* attempt (so no token request); a name that keeps the rule is not rejected.
C6_InvalidNameRejectedFirst ==
  /\ ~ValidName(name) /\ flow = "entry" =>
       /\ ~scanStarted /\ ~pairStarted
       /\ entryPc \in {"validate", "returned"}
       /\ entryPc = "returned" => entryErr = ErrInvalidName
  /\ ValidName(name) => entryErr = NoErr

C6_Witness ==
  /\ entryPc = "returned" /\ entryErr = ErrInvalidName
  /\ Len(name) = NameMaxLen + 1
  /\ \A k \in 1..Len(name) : name[k] = 97

(***************************************************************************)
(* Properties of pairDevicesParallel.                                      *)
(***************************************************************************)
Finished(i) == ret[i] # NoRet
GotToken(i) ==
  /\ answers[i] # <<>>
  /\ IsToken(Last(answers[i]))
  /\ Last(answers[i]).body # ""

\* C8: every attempt of a batch ends as its own device's answers and the
\* shared deadline decide: with the token of its last answer, with the error
\* of its own fatal answer, or with the timeout once the deadline has passed
\* and all its answers were 403.  With three devices of which the second
\* answers 500 to its first poll and the others later answer 200 with a
\* token, the result is devices 1 and 3 and the failure count is 1.
C8_AttemptsIndependent ==
  /\ \A i \in Attempts :
       Finished(i) =>
         \/ /\ ret[i].err = NoErr
            /\ answers[i] # <<>>
            /\ IsToken(Last(answers[i]))
            /\ ret[i].token = Last(answers[i]).body
         \/ /\ answers[i] # <<>>
            /\ IsFatal(Last(answers[i]))
            /\ ret[i].err = WrapErr(requestToken(Last(answers[i])).err)
         \/ /\ ret[i] = [token |-> "", err |-> ErrTimeout]
            /\ Only403(i)
            /\ now >= PairTimeout
  /\ \A i \in Attempts :
       (answers[i] # <<>> /\ ~Finished(i)) => Only403(i)
  /\ (/\ mainPc = "returned"
      /\ N = 3
      /\ answers[2] = <<HttpAnswer(500, "")>>
      /\ GotToken(1)
      /\ GotToken(3))
     => /\ paired = <<[Host |-> devices[1].host, Token |-> Last(answers[1]).body,
                       Type |-> devices[1].type],
                      [Host |-> devices[3].host, Token |-> Last(answers[3]).body,
                       Type |-> devices[3].type]>>
        /\ failedCount = 1

C8_Witness ==
  /\ mainPc = "returned"
  /\ N = 3
  /\ answers[2] = <<HttpAnswer(500, "")>>
  /\ GotToken(1) /\ Len(answers[1]) = 2
  /\ GotToken(3) /\ Len(answers[3]) = DisplayedAttempts
  /\ Len(paired) = 2
  /\ failedCount = 1

\* C9: the result is built and returned only after every attempt has
\* finished and its goroutine has written its final status; no status
\* record is written once the result loop has started.
C9_StatusesFinal ==
  \A i \in Attempts :
    statuses[i] = (IF ret[i].err # NoErr
                     THEN [NewStatus(devices[i]) EXCEPT
                             !.attempt = attempt[i], !.err = ret[i].err,
                             !.status = FailedLine(ret[i].err)]
                     ELSE [NewStatus(devices[i]) EXCEPT
                             !.attempt = attempt[i], !.token = ret[i].token,
                             !.status = SuccessLine])

C9_BuildAfterAllFinished ==
  /\ mainPc \in {"build", "returned"} =>
       /\ \A i \in Attempts : Finished(i) /\ pc[i] = "exited"
       /\ statusMu = 0
       /\ C9_StatusesFinal
  /\ mainPc = "wait" => paired = <<>> /\ failedCount = 0

C9_Witness ==
  /\ mainPc = "build" /\ buildIdx = 2 /\ N = 3
  /\ ret[1].err = ErrTimeout
  /\ ret[2].err = NoErr
  /\ ret[3].err = "error: HTTP 500"

\* C10: the returned list holds no device whose attempt ended in an error or
\* a timeout, holds the listed devices in input order, each with its own
\* host, type and token, and the failure count is the number of input
\* devices less the number of devices returned.
InputIndices == [i \in Attempts |-> i]
C10_Listed(i) == \E k \in 1..Len(paired) : paired[k].Host = devices[i].host
C10_Expected ==
  LET sel == SelectSeq(InputIndices, C10_Listed)
  IN [k \in 1..Len(sel) |->
        [Host |-> devices[sel[k]].host, Token |-> ret[sel[k]].token,
         Type |-> devices[sel[k]].type]]

C10_ResultList ==
  mainPc = "returned" =>
    /\ paired = C10_Expected
    /\ \A i \in Attempts : C10_Listed(i) => ret[i].err = NoErr
    /\ failedCount = N - Len(paired)

C10_Witness ==
  /\ mainPc = "returned" /\ N = 3
  /\ Len(paired) = 2 /\ failedCount = 1
  /\ paired[1].Host = "h1" /\ paired[1].Token = "T2"
  /\ paired[2].Host = "h3" /\ paired[2].Token = "T1"
  /\ ret[2].err = ErrTimeout

\* The program points of goroutine i between statusMu.Lock() and the
\* matching Unlock().
InCritical(i) == pc[i] \in {"cbLocked", "cbWritten", "finalLocked", "finalWritten"}
\* The program points where goroutine i waits: on the ticker or the
\* deadline, before the token request is issued, on the HTTP response.
Waits(i) == pc[i] \in {"select", "request", "inflight"}

\* C11: during a batch a goroutine between Lock and Unlock is the holder of
\* the mutex, so no two goroutines are there together, and every step that
\* changes a status record (attempt, status line, token, error) or redraws
\* a line is taken by the goroutine that holds the mutex, on its own record
\* and line.
C11_InCriticalHolds ==
  \A i \in Attempts : InCritical(i) => statusMu = i
C11_WritesByHolder ==
  \A i \in Attempts :
    (statuses'[i] # statuses[i] \/ display'[i] # display[i])
      => /\ statusMu = i /\ statusMu' = i
         /\ InCritical(i)
         /\ \A j \in Attempts \ {i} :
              statuses'[j] = statuses[j] /\ display'[j] = display[j]
C11_WritesUnderMutex ==
  /\ [](flow = "batch" => C11_InCriticalHolds)
  /\ [][flow = "batch" => C11_WritesByHolder]_vars

\* Two goroutines want the mutex at once, and one has it and has written.
C11_Witness ==
  /\ flow = "batch" /\ N = 3
  /\ statusMu = 2 /\ pc[2] = "cbWritten" /\ statuses[2].attempt = 1
  /\ pc[1] = "onAttempt" /\ pc[3] = "returned"

\* C12: the mutex is not held by a goroutine that waits on its ticker or the
\* deadline, that is about to issue a token request, or that waits for the
\* HTTP response; whoever holds it is between Lock and Unlock; and time
\* passes only while the mutex is free.
C12_HolderIsInCritical ==
  /\ statusMu \in Attempts => InCritical(statusMu)
  /\ \A i \in Attempts : Waits(i) => statusMu # i
C12_NotHeldWhileWaiting ==
  /\ [](flow = "batch" => C12_HolderIsInCritical)
  /\ [][(flow = "batch" /\ now' # now) => (statusMu = 0 /\ statusMu' = 0)]_vars

\* A goroutine has reported progress and waits for the HTTP response while
\* another one holds the mutex.
C12_Witness ==
  /\ flow = "batch" /\ N = 3
  /\ pc[1] = "request" /\ Len(reported[1]) = 2 /\ requests[1] = 1
  /\ statusMu = 3 /\ pc[3] = "cbLocked"

(***************************************************************************)
(* Properties of the discovery scan.                                       *)
(***************************************************************************)
\* The devices reported, each once, in the order they were reported.
ArrivalOrder == [k \in 1..emitted |-> k]
\* The scan loop has left its select.
ScanStopped == scanPc \in {"waitDone", "confirm", "returned"}
\* The answers that decline: "n" and "no" in any case.
Declines(r) ==
  r \in {<<110>>, <<78>>, <<110, 111>>, <<110, 79>>, <<78, 111>>, <<78, 79>>}

\* C13: a scan does not go on once 3 seconds have passed since the last
\* device arrived.  When devices arrived and the 3 seconds after the last
\* arrival ended before the scan window did, the scan stopped at the end of
\* those 3 seconds, by the quiet period and before the end of the window,
\* with exactly the devices that arrived, each once, in arrival order; and
\* that list is returned when the operator confirms.
C13_QuietPeriodStops ==
  flow = "discover" =>
    /\ (scanPc = "select" /\ emitted >= 1) => clock <= lastEmit + QuietPeriod
    /\ (/\ ScanStopped
        /\ emitted >= 1
        /\ lastEmit + QuietPeriod < window
        /\ stopTime >= lastEmit + QuietPeriod)
       => /\ stopBy = "quiet"
          /\ stopTime = lastEmit + QuietPeriod
          /\ stopTime < window
          /\ found = ArrivalOrder
          /\ (scanPc = "returned" /\ ~Declines(asked[1]))
               => scanResult = ArrivalOrder

C13_Witness ==
  /\ scanPc = "returned" /\ window = 5 * TicksPerSecond
  /\ emitted = 2 /\ lastEmit = 7
  /\ stopBy = "quiet" /\ stopTime = 7 + QuietPeriod
  /\ asked = <<<<89>>>>
  /\ scanResult = <<1, 2>>

\* C14: every receive of a device sets the quiet timer to fire 3 seconds
\* later and nothing else changes it; it is nil before the first receive;
\* a scan stopped by the quiet period has received a device and stopped no
\* earlier than 3 seconds after the last receive; a scan that received no
\* device stopped because the discovery returned, at the end of the window.
C14_TimerFollowsReceive ==
  IF found' # found
    THEN quietTimer' = clock + QuietPeriod /\ clock' = clock
    ELSE quietTimer' = quietTimer
C14_QuietInvariant ==
  /\ found = <<>> <=> quietTimer = NoTimer
  /\ quietTimer # NoTimer => quietTimer <= clock + QuietPeriod
  /\ stopBy = "quiet" => found # <<>> /\ stopTime >= quietTimer
  /\ (ScanStopped /\ found = <<>>) => stopBy = "done" /\ stopTime >= window
C14_ArrivalRestartsQuiet ==
  /\ [](flow = "discover" => C14_QuietInvariant)
  /\ [][flow = "discover" => C14_TimerFollowsReceive]_vars

\* Two devices were received, the second one more than a second after the
\* scan began, and the scan stopped 3 seconds after it.
C14_Witness ==
  /\ stopBy = "quiet" /\ Len(found) = 2 /\ emitted = 2
  /\ lastEmit = 15 /\ quietTimer = 15 + QuietPeriod /\ stopTime = quietTimer
  /\ window = 5 * TicksPerSecond

\* C15: when the operator declines, and when no device was found, the flow
\* ends with the no-devices error, pairing is not started and no token
\* request is made; the operator is asked at most once, and not at all when
\* no device was found.
C15_NoPairingWithoutDevices ==
  flow = "discover" =>
    /\ Len(asked) <= 1
    /\ found = <<>> => asked = <<>>
    /\ ((asked # <<>> /\ Declines(asked[1])) \/ (scanPc = "returned" /\ found = <<>>))
         => /\ scanResult = <<>>
            /\ ~pairStarted
            /\ \A i \in DOMAIN requests : requests[i] = 0
            /\ entryPc \in {"scanning", "returned"}
            /\ entryPc = "returned" => entryErr = ErrNoDevices
    /\ entryPc = "returned" => ~pairStarted

\* Three devices were found, the operator answered "No", and the flow has
\* ended.
C15_Witness ==
  /\ entryPc = "returned" /\ entryErr = ErrNoDevices
  /\ found = <<1, 2, 3>> /\ asked = <<<<78, 111>>>>
  /\ ~pairStarted

\* No device was found and the flow has ended without a question.
C15_WitnessNone ==
  /\ entryPc = "returned" /\ entryErr = ErrNoDevices
  /\ found = <<>> /\ asked = <<>> /\ stopBy = "done" /\ window > 0

(***************************************************************************)
(* Properties of the adapters.                                             *)
(***************************************************************************)
\* The cache an accessor reads.
CacheOf(fn) == IF fn = "GetBatteryPowerLimits" THEN batteriesData ELSE measurement
\* The cache was written at some time t0 and now is no later than t0 + d.
WithinMaxAge(c) == c.written /\ now <= c.at + maxAge
\* The last step delivered a message to the handler.
Handled == lastMsg' # NoMsg

\* C18: a decoded message writes its value into the cache with the time of
\* the write.  A read of the cache no later than max-age after its last
\* write succeeds with exactly the value written; a read later than that,
\* or of a cache never written, fails with the timeout error.
C18_WriteStamps ==
  /\ (Handled /\ lastMsg'.type = "measurement" /\ lastMsg'.err = NoErr)
       => measurement' = [val |-> UnmarshalMeasurement(devType, lastMsg'.payload),
                          at |-> now, written |-> TRUE]
  /\ (Handled /\ lastMsg'.type = "batteries" /\ lastMsg'.err = NoErr
        /\ devType = "p1meter")
       => batteriesData' = [val |-> lastMsg'.payload.bat, at |-> now,
                            written |-> TRUE]
C18_ReadWithinAge ==
  /\ call.fn = "GetMeasurement" =>
       IF WithinMaxAge(measurement)
         THEN call.res.err = NoErr /\ call.res.m = measurement.val
         ELSE call.res.err = ApiErrTimeout
  /\ call.fn = "GetBatteryPowerLimits" =>
       IF WithinMaxAge(batteriesData)
         THEN /\ call.res.err = NoErr
              /\ call.res.vals = <<batteriesData.val.MaxConsumptionW,
                                    batteriesData.val.MaxProductionW>>
         ELSE call.res.err = ApiErrTimeout
C18_FreshUntilMaxAge ==
  /\ [](flow = "adapter" => C18_ReadWithinAge)
  /\ [][flow = "adapter" => C18_WriteStamps]_vars

\* A read at exactly t0 + d that succeeds with the value written at t0.
C18_Witness ==
  /\ call.fn = "GetMeasurement" /\ maxAge = 2
  /\ measurement.at = 1 /\ now = 3
  /\ call.res.err = NoErr /\ call.res.m["power_w"] = 0 - 60

\* A read one second later that fails.
C18_WitnessStale ==
  /\ call.fn = "GetMeasurement" /\ maxAge = 2
  /\ measurement.at = 1 /\ now = 4 /\ measurement.val["power_w"] = 0 - 60
  /\ call.res.err = ApiErrTimeout

\* C19: an accessor whose cache holds no fresh value (never written, or
\* written longer ago than max-age) returns the timeout error and zeros; an
\* accessor whose cache is fresh returns no error.  A call is one step: it
\* does not wait.
C19_StaleIsTimeout ==
  (flow = "adapter" /\ call.fn # "none") =>
    IF WithinMaxAge(CacheOf(call.fn))
      THEN call.res.err = NoErr
      ELSE /\ call.res.err = ApiErrTimeout
           /\ call.res.m = ZeroMeasurement
           /\ \A k \in 1..Len(call.res.vals) : call.res.vals[k] = 0

\* The battery limits are asked for while the battery data are too old
\* and the measurement is fresh.
C19_Witness ==
  /\ call.fn = "GetBatteryPowerLimits" /\ call.res.err = ApiErrTimeout
  /\ call.res.vals = <<0, 0>>
  /\ batteriesData.written /\ batteriesData.val.MaxConsumptionW = 800
  /\ now > batteriesData.at + maxAge
  /\ WithinMaxAge(measurement)

\* C20: handling a message changes at most the cache of its type: a
\* "measurement" leaves the battery cache alone, "batteries" on the P1 meter
\* leaves the measurement cache alone, and every other type ("batteries"
\* on the kWh meter among them) returns no error and changes no cache.
C20_FrameOfMessage ==
  Handled =>
    CASE lastMsg'.type = "measurement" -> batteriesData' = batteriesData
      [] lastMsg'.type = "batteries" /\ devType = "p1meter" ->
           measurement' = measurement
      [] OTHER -> /\ lastMsg'.err = NoErr
                  /\ measurement' = measurement
                  /\ batteriesData' = batteriesData
C20_OnlyOwnCache == [][flow = "adapter" => C20_FrameOfMessage]_vars

\* The kWh meter holds a measurement and has just been sent "batteries".
C20_Witness ==
  /\ devType = "kwhmeter" /\ lastMsg.type = "batteries" /\ lastMsg.payload.ok
  /\ lastMsg.err = NoErr
  /\ measurement.written /\ measurement.val["power_w"] = 0 - 120
  /\ ~batteriesData.written

(***************************************************************************)
(* Properties of StartAndWait and SetBatteryMode.                          *)
(***************************************************************************)
\* The step is a call of SetBatteryMode, the return of its HTTP request,
\* the return of StartAndWait.
\* The step is a call of SetBatteryMode: it goes on to the sleep or to the
\* HTTP request, or it has called Send and returned at once.
ModeCalled ==
  /\ sbmPc \in {"idle", "returned"}
  /\ sbmPc' \in {"sleep", "http"} \/ Len(sendErrs') > Len(sendErrs)
HttpReturned == sbmPc = "http" /\ sbmPc' = "returned"
StartReturned == startPc = "select" /\ startPc' = "returned"

\* C16, as stated: once SetBatteryMode has returned from a call whose
\* Send failed because the link was not Connected, the HTTP request was
\* issued with the mode of the call, and what the call returned is the
\* outcome of that request.
C16_Original ==
  (/\ flow = "control"
   /\ sbmPc = "returned"
   /\ sendErrs # <<>>
   /\ Last(sendErrs) = ErrNotConnected)
    => /\ httpPuts # <<>>
       /\ Len(httpErr) = Len(httpPuts)
       /\ httpPuts[Len(httpPuts)] = sbmMode
       /\ sbmRet = httpErr[Len(httpErr)]

\* C16: SetBatteryMode called while the connection is not Connected sends
\* nothing over the connection.  When the URL made of the device's host
\* parses it issues the HTTP request with the mode it was given, and what
\* it returns is the outcome of that request: nil if the request succeeded,
\* its error otherwise.  When the URL does not parse it issues no request
\* and returns the error of the URL parser at once.
C16_FallbackStep ==
  /\ (ModeCalled /\ connState # "Connected")
       => /\ sent' = sent
          /\ IF UrlParses(host)
               THEN /\ sbmPc' = "http"
                    /\ httpPuts' = Append(httpPuts, sbmMode')
               ELSE /\ sbmPc' = "returned"
                    /\ httpPuts' = httpPuts /\ httpErr' = httpErr
                    /\ sbmRet' = ErrParse
  /\ HttpReturned
       => /\ Len(httpErr') = Len(httpPuts)
          /\ sbmRet' = httpErr'[Len(httpErr')]
          /\ sent' = sent /\ httpPuts' = httpPuts
C16_FallbackToHttp == [][flow = "control" => C16_FallbackStep]_vars

\* The link was in Reconnecting, the request was answered 500.
C16_Witness ==
  /\ sbmPc = "returned" /\ sbmMode = "standby" /\ host = GoodHost
  /\ connState = "Reconnecting"
  /\ sent = <<>> /\ httpPuts = <<"standby">> /\ httpErr = <<"HTTP 500">>
  /\ sbmRet = "HTTP 500"

\* The request was answered 200.
C16_WitnessOk ==
  /\ sbmPc = "returned" /\ sbmMode = "to_full"
  /\ connState = "Disconnected"
  /\ sent = <<>> /\ httpPuts = <<"to_full">> /\ httpErr = <<NoErr>>
  /\ sbmRet = NoErr

\* The URL of the request does not parse: no request, the parser's error.
C16_WitnessBadHost ==
  /\ sbmPc = "returned" /\ sbmMode = "zero" /\ host = BadHost
  /\ sendErrs = <<ErrNotConnected>>
  /\ sent = <<>> /\ httpPuts = <<>> /\ httpErr = <<>>
  /\ sbmRet = ErrParse

\* C17: StartAndWait returns, and no later than its timeout.  When it
\* makes its choice with no notification in errC it calls Stop and returns
\* the timeout error; when it makes it before the timeout with an error in
\* errC it calls Stop and returns that error wrapped; with nil in errC
\* before the timeout it returns nil and does not call Stop.  When both are
\* ready it does one or the other.
C17_ReturnStep ==
  StartReturned =>
    CASE errC = "empty" ->
           /\ now >= deadline
           /\ startRet' = ErrConnTimeout
           /\ stops' = stops + 1 /\ connState' = "Stopped"
      [] errC = NoErr /\ now < deadline ->
           /\ startRet' = NoErr
           /\ stops' = stops /\ connState' = connState
      [] errC \notin {"empty", NoErr} /\ now < deadline ->
           /\ startRet' = WrapConnErr(errC)
           /\ stops' = stops + 1 /\ connState' = "Stopped"
      [] OTHER ->
           \/ startRet' = ErrConnTimeout /\ stops' = stops + 1
           \/ errC = NoErr /\ startRet' = NoErr /\ stops' = stops
           \/ errC # NoErr /\ startRet' = WrapConnErr(errC) /\ stops' = stops + 1
C17_StartAndWaitReturns ==
  /\ [][flow = "control" => C17_ReturnStep]_vars
  /\ [](startPc = "select" => now <= deadline)
  /\ (startPc = "select") ~> (startPc = "returned")

\* The handshake never ended: StartAndWait returned the timeout error
\* after 2 seconds.
C17_Witness ==
  /\ startPc = "returned" /\ startRet = ErrConnTimeout
  /\ startTimeout = 2 /\ now = 2 /\ deadline = 2
  /\ ~notified /\ errC = "empty"
  /\ stops = 1 /\ connState = "Stopped"

\* The first handshake failed after a second.
C17_WitnessError ==
  /\ startPc = "returned" /\ startRet = WrapConnErr(ErrDial)
  /\ startTimeout = 2 /\ now = 1
  /\ stops = 1 /\ connState = "Stopped"

\* The first handshake succeeded.
C17_WitnessOk ==
  /\ startPc = "returned" /\ startRet = NoErr
  /\ startTimeout = 2 /\ now = 1
  /\ stops = 0 /\ connState = "Connected"

(***************************************************************************)
(* Properties of the connection and of the frames it hands to the handler. *)
(***************************************************************************)
\* The step is the receive loop handing a frame to the handler.
Dispatched ==
  /\ flow = "stream"
  /\ inbound # <<>>
  /\ Len(inbound') = Len(inbound) - 1
  /\ connState' = connState
\* The types whose payload the handler of the adapter decodes.
Decodes(msgType) ==
  \/ msgType = "measurement"
  \/ msgType = "batteries" /\ devType = "p1meter"
UnmarshalError(msgType) ==
  IF msgType = "measurement" THEN ErrUnmarshalMeasurement
  ELSE ErrUnmarshalBatteries

\* C21: when the handler is given a "measurement" message, or the handler
\* of the P1 meter a "batteries" message, whose payload cannot be decoded,
\* it returns the unmarshal error of that type and both caches keep their
\* value and their timestamp; the connection stays Connected, Stop is not
\* called, and the frames that follow are handed to the handler.
C21_ErrorStep ==
  (Dispatched /\ Decodes(lastMsg'.type) /\ ~lastMsg'.payload.ok)
    => /\ lastMsg'.err = UnmarshalError(lastMsg'.type)
       /\ measurement' = measurement
       /\ batteriesData' = batteriesData
       /\ connState' = "Connected"
       /\ stops' = stops /\ stopFrom' = stopFrom
       /\ inbound' = Tail(inbound)
C21_NextHandled ==
  (flow = "stream" /\ connState = "Connected" /\ inbound # <<>>)
    => ENABLED Dispatch
C21_DecodeErrorIsLocal == []C21_NextHandled /\ [][C21_ErrorStep]_vars

\* A measurement was cached a second ago; the handler has just returned
\* an error for an undecodable "measurement" message and the next frame
\* waits.
C21_Witness ==
  /\ flow = "stream" /\ connState = "Connected"
  /\ lastMsg.type = "measurement" /\ lastMsg.err = ErrUnmarshalMeasurement
  /\ measurement.written /\ measurement.at = now - 1
  /\ measurement.val = UnmarshalMeasurement(devType, MeasurementPayload(2))
  /\ inbound # <<>>

\* The same for an undecodable "batteries" message of a P1 meter.
C21_WitnessBatteries ==
  /\ flow = "stream" /\ connState = "Connected" /\ devType = "p1meter"
  /\ lastMsg.type = "batteries" /\ lastMsg.err = ErrUnmarshalBatteries
  /\ batteriesData.written
  /\ batteriesData.val = [MaxConsumptionW |-> 800, MaxProductionW |-> 700]
  /\ inbound # <<>>

\* C22: a call of Send writes the message exactly when the link is
\* Connected and the write succeeds; in every other link state it returns
\* the NotConnected error in the same step and writes nothing; and no
\* other step (a handshake, a reconnect, the passing of time) writes a
\* message, so that one whose Send failed never reaches the device.
C22_SendStep ==
  IF ModeCalled
    THEN LET e == sendErrs'[Len(sendErrs')]
         IN /\ Len(sendErrs') = Len(sendErrs) + 1
            /\ connState # "Connected" => e = ErrNotConnected
            /\ e = NoErr => sent' = Append(sent, sbmMode')
            /\ e # NoErr => sent' = sent
    ELSE sent' = sent /\ sendErrs' = sendErrs
C22_SendOnlyWhenConnected == [][flow = "control" => C22_SendStep]_vars

\* Send failed while the connection was waiting to reconnect; the link is
\* Connected again and nothing was written.
C22_Witness ==
  /\ flow = "control" /\ sbmPc = "returned"
  /\ sendErrs = <<ErrNotConnected>>
  /\ connState = "Connected" /\ notified
  /\ sent = <<>>

\* Send succeeded on a Connected link.
C22_WitnessSent ==
  /\ flow = "control" /\ sendErrs = <<NoErr>> /\ sent = <<"zero">>
  /\ connState = "Connected"

\* C23: Stop can be called in every link state; the call leaves the
\* connection in its terminal state with no session and no retry pending,
\* and from then on the state is kept: no step connects again, and no
\* frame is handed to the handler (the caches keep what they hold).
C23_Accepted ==
  (flow = "stream" /\ stopFrom = "none") => ENABLED StopCall
C23_Terminal ==
  (flow = "stream" /\ stopFrom # "none")
    => /\ connState = "Stopped"
       /\ inbound = <<>>
       /\ retryAt = NoTimer
       /\ ~ENABLED Reconnect /\ ~ENABLED HandshakeOk /\ ~ENABLED Dispatch
       /\ ~ENABLED Receive /\ ~ENABLED StartCall
C23_AfterStop ==
  (flow = "stream" /\ stopFrom # "none")
    => /\ connState' = "Stopped" /\ stopFrom' = stopFrom
       /\ ~Dispatched
       /\ measurement' = measurement /\ batteriesData' = batteriesData
C23_StopIsTerminal ==
  /\ []C23_Accepted
  /\ []C23_Terminal
  /\ [][C23_AfterStop]_vars

\* Stop was called while the connection was waiting to reconnect; the
\* delay has passed, the device answers, and the connection is still
\* stopped.
C23_Witness ==
  /\ flow = "stream" /\ stopFrom = "Reconnecting" /\ stops = 1
  /\ connState = "Stopped" /\ reachable /\ now = MaxControlClock

\* Stop was called on a Connected link, during a handshake, and before
\* Start.
C23_WitnessConnected ==
  /\ flow = "stream" /\ stopFrom = "Connected" /\ connState = "Stopped"
  /\ measurement.written /\ now > measurement.at
C23_WitnessConnecting ==
  /\ flow = "stream" /\ stopFrom = "Connecting" /\ connState = "Stopped"
  /\ now > 0
C23_WitnessNotStarted ==
  /\ flow = "stream" /\ stopFrom = "Disconnected" /\ connState = "Stopped"
  /\ now > 0

\* C24: a connection that lost its link, or whose handshake failed, has a
\* retry pending that is due one delay later and is not made earlier, however
\* many attempts were made before; once started and as long as Stop was
\* not called it is never in Disconnected; while Stop is not called the
\* retry is made, and while the device answers the connection comes back
\* to Connected.
Retrying == flow = "stream" /\ stopFrom = "none" /\ connState = "Reconnecting"
WithinClock == retryAt = NoTimer \/ retryAt <= MaxControlClock
C24_RetryPending ==
  (flow = "stream" /\ connState = "Reconnecting")
    => retryAt # NoTimer /\ retryAt <= now + ReconnectDelay
C24_NeverSettles ==
  (flow = "stream" /\ dials > 0 /\ stopFrom = "none")
    => connState \in {"Connecting", "Connected", "Reconnecting"}
C24_DelayStep ==
  flow = "stream" =>
    /\ (connState # "Reconnecting" /\ connState' = "Reconnecting")
         => retryAt' = now + ReconnectDelay
    /\ (connState = "Reconnecting" /\ connState' = "Connecting")
         => now >= retryAt /\ dials' = dials + 1
C24_ReconnectsForever ==
  /\ []C24_RetryPending
  /\ []C24_NeverSettles
  /\ [][C24_DelayStep]_vars
  /\ (Retrying /\ WithinClock) ~> (connState # "Reconnecting" \/ stopFrom # "none")
  /\ (flow = "stream" /\ stopFrom = "none" /\ reachable /\ WithinClock
        /\ connState \in {"Connecting", "Reconnecting"})
       ~> (connState = "Connected" \/ stopFrom # "none" \/ ~reachable)

\* The first handshake and two retries failed; the device came back and
\* the fourth attempt has connected.
C24_Witness ==
  /\ flow = "stream" /\ stopFrom = "none"
  /\ dials = 4 /\ errC = ErrDial
  /\ connState = "Connected" /\ reachable

\* C25: the receive loop hands the handler one frame per step, the one
\* that has waited longest, and a frame that arrives waits behind those
\* that wait already; so the measurement cache holds the last decodable
\* "measurement" payload read from the connection.
C25_OrderStep ==
  /\ Dispatched
       => /\ lastMsg'.type = inbound[1].type
          /\ lastMsg'.payload = inbound[1].payload
          /\ inbound' = Tail(inbound)
  /\ (flow = "stream" /\ Len(inbound') > Len(inbound))
       => /\ Len(inbound') = Len(inbound) + 1
          /\ SubSeq(inbound', 1, Len(inbound)) = inbound
C25_CacheHoldsLast ==
  (flow = "stream" /\ lastGood # Undecodable)
    => /\ measurement.written
       /\ measurement.val = UnmarshalMeasurement(devType, lastGood)
C25_ReceiveOrder == []C25_CacheHoldsLast /\ [][C25_OrderStep]_vars

\* A measurement was cached a second ago; the handler was then given the
\* first of two measurements that waited, and the cache holds it; the
\* second one still waits.
C25_Witness ==
  /\ flow = "stream" /\ connState = "Connected" /\ now > 0
  /\ lastMsg.type = "measurement" /\ lastMsg.payload = MeasurementPayload(1)
  /\ lastGood = MeasurementPayload(1)
  /\ measurement.val = UnmarshalMeasurement(devType, MeasurementPayload(1))
  /\ measurement.at = now
  /\ inbound = <<[type |-> "measurement", payload |-> MeasurementPayload(2)]>>

(***************************************************************************)
(* Properties of a cache read that runs while the handler stores.          *)
(***************************************************************************)
\* What Get has read, as a record of the cache.
ReadRecord == [val |-> rGot.val, at |-> rGot.at, written |-> rGot.written]

\* C26: the handler's write and the accessor's read of the cache never
\* overlap; what a read has taken is one of the records stored (the value
\* together with the timestamp it was stored with), never the value of one
\* and the timestamp of another; its verdict is the freshness of that
\* record at the time of the read, and GetMeasurement returns that record's
\* value when fresh and the timeout error otherwise.
C26_Exclusion ==
  flow = "race" => ~(wPc \in {"locked", "val"} /\ rPc \in {"locked", "val"})
C26_Complete ==
  (flow = "race" /\ rPc = "got") => ReadRecord \in records
C26_ReadStep ==
  /\ (rPc = "val" /\ rPc' = "got")
       => (rGot'.err = NoErr
            <=> \E rec \in records :
                  /\ rec.val = rGot'.val /\ rec.at = rGot'.at
                  /\ rec.written /\ now - rec.at <= maxAge)
  /\ (rPc = "got" /\ rPc' = "idle")
       => IF rGot.err = NoErr
            THEN call'.res.err = NoErr /\ call'.res.m = rGot.val
            ELSE call'.res.err = ApiErrTimeout
                 /\ call'.res.m = ZeroMeasurement
C26_NoTornRead ==
  /\ []C26_Exclusion
  /\ []C26_Complete
  /\ [][C26_ReadStep]_vars

\* A read has taken the measurement stored before while the handler holds
\* the next one, decoded and not yet stored.
C26_Witness ==
  /\ flow = "race" /\ rPc = "got" /\ wPc = "decoded"
  /\ rGot.err = NoErr
  /\ rGot.val = UnmarshalMeasurement(devType, MeasurementPayload(1))
  /\ wLocal = UnmarshalMeasurement(devType, MeasurementPayload(2))

\* A read waits for the lock while the handler is between its two writes.
C26_WitnessWaiting ==
  /\ flow = "race" /\ rPc = "idle" /\ wPc = "val" /\ monMu = "writer"
  /\ measurement.val = UnmarshalMeasurement(devType, MeasurementPayload(2))
  /\ measurement.at < now
  /\ ~ENABLED RLock

(***************************************************************************)
(* Properties of the per-phase accessors.                                  *)
(***************************************************************************)
\* The aggregate field and the three line fields an accessor reads.
PhaseFields(fn) ==
  CASE fn = "GetPhasePowers" ->
         <<"power_w", "power_l1_w", "power_l2_w", "power_l3_w">>
    [] fn = "GetPhaseCurrents" ->
         <<"current_a", "current_l1_a", "current_l2_a", "current_l3_a">>
    [] fn = "GetPhaseVoltages" ->
         <<"voltage_v", "voltage_l1_v", "voltage_l2_v", "voltage_l3_v">>
\* The outputs by the convention: the aggregate and two zeros for one
\* phase, the three lines for three.
Convention(fn, phases, m) ==
  LET f == PhaseFields(fn)
  IN IF phases = 1 THEN <<m[f[1]], 0, 0>>
     ELSE <<m[f[2]], m[f[3]], m[f[4]]>>
PhaseCall ==
  /\ flow = "adapter"
  /\ call.fn \in {"GetPhasePowers", "GetPhaseCurrents", "GetPhaseVoltages"}
  /\ call.phases \in {1, 3}
  /\ call.res.err = NoErr

\* C27 as stated: a per-phase accessor that succeeds returns, for one
\* phase, the aggregate field of the cached measurement and two zeros, and
\* for three phases its three line fields in the order L1, L2, L3.
C27_Original ==
  PhaseCall =>
    call.res.vals = Convention(call.fn, call.phases, measurement.val)

\* C27 amended: the same, except that GetPhasePowers of the base meter
\* called with invertForPV set returns each of the three outputs with its
\* sign inverted.
C27_PhaseConvention ==
  PhaseCall =>
    LET c == Convention(call.fn, call.phases, measurement.val)
    IN call.res.vals =
         IF call.fn = "GetPhasePowers" /\ call.flag
           THEN <<Neg(c[1]), Neg(c[2]), Neg(c[3])>>
           ELSE c

\* A kWh meter that holds a measurement of -60 W was asked for the powers
\* of one phase with invertForPV set, and returned 60, 0, 0.
C27_Witness ==
  /\ flow = "adapter" /\ devType = "kwhmeter"
  /\ call.fn = "GetPhasePowers" /\ call.phases = 1 /\ call.flag
  /\ measurement.val["power_w"] = 0 - 60
  /\ call.res.err = NoErr /\ call.res.vals = <<60, 0, 0>>

\* A P1 meter returned the three line voltages; a kWh meter returned the
\* aggregate current and two zeros.
C27_WitnessLines ==
  /\ flow = "adapter" /\ devType = "p1meter"
  /\ call.fn = "GetPhaseVoltages" /\ call.phases = 3
  /\ call.res.err = NoErr /\ call.res.vals = <<233, 234, 235>>
C27_WitnessAggregate ==
  /\ flow = "adapter" /\ devType = "kwhmeter"
  /\ call.fn = "GetPhaseCurrents" /\ call.phases = 1
  /\ call.res.err = NoErr /\ call.res.vals = <<6, 0, 0>>

(***************************************************************************)
(* Properties of the two paths of SetBatteryMode.                          *)
(***************************************************************************)
\* The number of calls of Send that returned an error.
FailedSends == Cardinality({i \in DOMAIN sendErrs : sendErrs[i] # NoErr})

\* The HTTP requests that must have been issued: one for every failed
\* send, if the URL made of the device's host parses.
RequestsDue == IF UrlParses(host) THEN FailedSends ELSE 0

\* C28, as stated: the HTTP request is issued if and only if the send
\* returned an error, so there are as many requests as failed sends, and
\* as many messages written as successful sends.
C28_Original ==
  flow = "control" =>
    /\ Len(httpPuts) = FailedSends
    /\ Len(sent) = Len(sendErrs) - FailedSends

\* C28: a call of SetBatteryMode calls Send once, before anything else;
\* it issues the HTTP request, with its mode, exactly when Send returned
\* an error and the URL made of the device's host parses; when Send returned
\* an error and the URL does not parse it issues none and returns the
\* parser's error; after a successful Send it issues none and returns nil.
\* No other step calls Send or issues a request.
C28_CallStep ==
  /\ ModeCalled
       => LET e == sendErrs'[Len(sendErrs')]
          IN /\ Len(sendErrs') = Len(sendErrs) + 1
             /\ IF e = NoErr
                  THEN /\ httpPuts' = httpPuts
                       /\ sbmPc' = "sleep"
                  ELSE IF UrlParses(host)
                    THEN /\ httpPuts' = Append(httpPuts, sbmMode')
                         /\ sbmPc' = "http"
                    ELSE /\ httpPuts' = httpPuts
                         /\ sbmPc' = "returned"
                         /\ sbmRet' = ErrParse
  /\ ~ModeCalled => sendErrs' = sendErrs /\ httpPuts' = httpPuts
  /\ (sbmPc = "sleep" /\ sbmPc' = "returned") => sbmRet' = NoErr
C28_Counts ==
  flow = "control" =>
    /\ Len(httpPuts) = RequestsDue
    /\ Len(sent) = Len(sendErrs) - FailedSends
    /\ (sbmPc = "returned" /\ sendErrs # <<>>
          /\ sendErrs[Len(sendErrs)] = NoErr) => sbmRet = NoErr
C28_HttpIffSendFailed ==
  /\ []C28_Counts
  /\ [][flow = "control" => C28_CallStep]_vars

\* Send succeeded on a Connected link: no request, nil returned.
C28_Witness ==
  /\ flow = "control" /\ sbmPc = "returned" /\ sbmMode = "standby"
  /\ sendErrs = <<NoErr>> /\ sent = <<"standby">>
  /\ httpPuts = <<>> /\ httpErr = <<>> /\ sbmRet = NoErr

\* Send failed with a write error on a Connected link: one request.
C28_WitnessWriteError ==
  /\ flow = "control" /\ sbmPc = "returned" /\ connState = "Connected"
  /\ host = GoodHost
  /\ sendErrs = <<ErrWrite>> /\ sent = <<>>
  /\ httpPuts = <<"zero">> /\ httpErr = <<NoErr>> /\ sbmRet = NoErr

(***************************************************************************)
(* Termination and completeness of the discovery scan.                     *)
(***************************************************************************)
\* The scan loop waits for done after cancel(), nobody receives from
\* deviceChan any more, and the callback waits for room in the full buffer:
\* the discovery cannot return, so done is never closed.
ScanHung ==
  /\ scanPc = "waitDone"
  /\ discPc = "blocked"
  /\ Len(deviceChan) = DeviceChanCap

\* C29: discoverInteractively always returns.  For every pattern of
\* arrivals the scan loop and the discovery never wait on each other for
\* ever: the loop never waits for done while the callback waits for room in
\* deviceChan, and as long as the scan has not returned some step of the
\* loop, of the discovery or of time is possible.
C29_Original ==
  flow = "discover" =>
    /\ ~ScanHung
    /\ scanPc # "returned" => ENABLED <<NextDiscover>>_vars

\* The devices the callback was called with and that the list lacks.
Lost(ds) == {k \in 1..emitted : \A i \in DOMAIN ds : ds[i] # k}

\* C30: no discovered device is lost.  When the scan has returned and the
\* operator has confirmed, every device the discovery reported through the
\* callback is in the list returned.
C30_Original ==
  (/\ flow = "discover"
   /\ scanPc = "returned"
   /\ asked # <<>>
   /\ ~Declines(asked[1]))
    => Lost(scanResult) = {}

(***************************************************************************)
(* The result of a batch against the outcome of its attempts.              *)
(***************************************************************************)
\* The devices whose attempt returned an error.
FailedAttempts == {i \in Attempts : ret[i].err # NoErr}

\* C31: in the list a batch returns a device is present if and only if its
\* attempt returned without error: every device whose final status is the
\* success status is in the list, whatever token came with its 200
\* response, and the failure count is the number of attempts that returned
\* an error.
C31_Original ==
  (flow = "batch" /\ mainPc = "returned") =>
    /\ \A i \in Attempts : C10_Listed(i) <=> ret[i].err = NoErr
    /\ \A i \in Attempts : statuses[i].status = SuccessLine => C10_Listed(i)
    /\ failedCount = Cardinality(FailedAttempts)

\* C32: pairDevicesParallel always returns.  Under the shared deadline the
\* batch reaches its return with every attempt finished, every goroutine
\* exited (none left waiting for the status mutex), the mutex free and the
\* wait for all goroutines over.
C32_BatchReturns ==
  <>(/\ mainPc = "returned"
     /\ \A i \in Attempts : Finished(i) /\ pc[i] = "exited"
     /\ statusMu = 0
     /\ wg = 0)

\* A batch of two has returned: one attempt ran into the deadline, which
\* it reached past its last displayed poll, and the other got a token.
C32_Witness ==
  /\ flow = "batch" /\ mainPc = "returned" /\ N = 2
  /\ ret[1].err = ErrTimeout /\ attempt[1] >= DisplayedAttempts
  /\ ret[2].err = NoErr /\ ret[2].token = "T1"
  /\ \A i \in Attempts : pc[i] = "exited"
  /\ statusMu = 0 /\ wg = 0

(***************************************************************************)
(* The choice of StartAndWait.                                             *)
(***************************************************************************)
\* The start notification is in errC and reports success.  Once
\* StartAndWait has stopped the connection no handshake ends any more, so a
\* success still in errC after a timeout was there when the choice was made.
SuccessWaiting == errC = NoErr

\* C33: StartAndWait calls Stop if and only if it returns an error; it
\* returns nil only with the connection left running; and with a success
\* notification waiting in errC when it makes its choice it does not return
\* the timeout error and does not call Stop.
C33_Original ==
  (flow = "control" /\ startPc = "returned") =>
    /\ stops = 1 <=> startRet # NoErr
    /\ startRet = NoErr => stops = 0 /\ stopFrom = "none"
    /\ SuccessWaiting => startRet # ErrConnTimeout /\ stops = 0

====
